---- MODULE Spec2Model ----
(***************************************************************************)
(* Free-list heap allocator of the kernel (src/src/heap.rs and             *)
(* src/src/heap/linked_list.rs).                                           *)
(*                                                                         *)
(* The free list is the chain of ListNode headers that starts at           *)
(* LinkedListAlloc.head.next; it is kept here as the sequence of its nodes *)
(* in list order (head first), each node being its start address and its  *)
(* size.  Live allocations are kept in address order together with the     *)
(* Layout they were requested with, because dealloc is handed the same     *)
(* Layout again.                                                           *)
(***************************************************************************)
EXTENDS Integers, Sequences, FiniteSets, TLC

(***************************************************************************)
(* Program constants.                                                      *)
(***************************************************************************)
\* heap.rs:39  HEAP_START = 0x4444_4444_0000.  Only the low 19 bits are kept
\* (0x4444_4444_0000 mod 2^19 = 0x40000): every address computation of the
\* allocator is an addition, a comparison or an align_up with an alignment
\* of at most 2^18, and all of these commute with dropping the high bits.
HEAP_START == 262144
\* heap.rs:40  HEAP_SIZE = 100 * 1024
HEAP_SIZE == 102400
\* mem::size_of::<ListNode>(): a usize and an Option<&'static mut ListNode>
ListNodeSize == 16
\* mem::align_of::<ListNode>()
ListNodeAlign == 8
\* ptr::null_mut()
NULL == 0
\* largest value of the address word; checked_add fails above it
WordMax == 2147483647

(***************************************************************************)
(* Bounds of the exploration.                                              *)
(***************************************************************************)
\* size of the small heap, in node headers
SmallHeapNodes == 4
\* number of simultaneously live allocations
MaxLive == 3
\* number of free-list nodes above which no further dealloc is explored
MaxFree == 2

SmallHeap == SmallHeapNodes * ListNodeSize
\* the sizes init may be called with: the kernel's and a small one that the
\* requests below can exhaust and fragment
HeapSizes == {SmallHeap, HEAP_SIZE}
\* the Layouts (size, align) requested by callers: the three of the boot
\* scenario (8, 16 and 4096 bytes), sizes that are not a multiple of the
\* header size, an alignment below and one above the header's, and the
\* zero-sized Layout
Layouts == {<<8, 8>>, <<16, 8>>, <<4096, 8>>, <<24, 1>>, <<32, 8>>,
            <<32, 32>>, <<0, 32>>}

VARIABLES
    free,        \* the free list, head first: Seq of [addr, size]
    live,        \* live allocations: Seq of [ptr, size, align] (the Layout)
    heap_size,   \* size given to init, 0 before init
    last,        \* the call that was made last and what it returned
    panicked     \* a panic (failed assert / expect) has halted the kernel

vars == <<free, live, heap_size, last, panicked>>

Max(a, b) == IF a >= b THEN a ELSE b

(***************************************************************************)
(* heap.rs:12-15.  (addr + align - 1) & !(align - 1); for a power of two   *)
(* the mask clears exactly the remainder modulo align.                     *)
(***************************************************************************)
align_up(addr, align) == (addr + align - 1) - ((addr + align - 1) % align)

\* usize::checked_add
checked_add(a, b) ==
    IF a > WordMax - b THEN [ok |-> FALSE, val |-> 0]
                       ELSE [ok |-> TRUE, val |-> a + b]

\* ListNode::start_addr / ListNode::end_addr
start_addr(node) == node.addr
end_addr(node) == start_addr(node) + node.size

(***************************************************************************)
(* linked_list.rs:102-110.  Layout::align_to raises the alignment to the   *)
(* header's, pad_to_align rounds the size up to that alignment, and the    *)
(* size is then raised to the header size.                                 *)
(***************************************************************************)
pad_to_align(size, align) == ((size + align - 1) \div align) * align

\* Faulty variant: the size is not raised to the header size.
size_align_nomin(lsize, lalign) ==
    LET a == Max(lalign, ListNodeAlign)
    IN [size |-> pad_to_align(lsize, a), align |-> a]

size_align(lsize, lalign) ==
    LET a == Max(lalign, ListNodeAlign)
        padded == pad_to_align(lsize, a)
    IN [size |-> Max(padded, ListNodeSize), align |-> a]

\* Faulty variant: the test "alloc_end > region.end_addr()" is left out.
alloc_from_region_noend(region, size, align) ==
    LET alloc_start == align_up(start_addr(region), align)
        sum == checked_add(alloc_start, size)
        alloc_end == sum.val
        overhang == end_addr(region) - alloc_end
    IN IF ~sum.ok THEN [ok |-> FALSE, alloc_start |-> 0]
       ELSE IF overhang > 0 /\ overhang < ListNodeSize
            THEN [ok |-> FALSE, alloc_start |-> 0]
       ELSE [ok |-> TRUE, alloc_start |-> alloc_start]

\* Faulty variant: the node's start is used without align_up.
alloc_from_region_noalign(region, size, align) ==
    LET alloc_start == start_addr(region)
        sum == checked_add(alloc_start, size)
        alloc_end == sum.val
        overhang == end_addr(region) - alloc_end
    IN IF ~sum.ok THEN [ok |-> FALSE, alloc_start |-> 0]
       ELSE IF alloc_end > end_addr(region) THEN [ok |-> FALSE, alloc_start |-> 0]
       ELSE IF overhang > 0 /\ overhang < ListNodeSize
            THEN [ok |-> FALSE, alloc_start |-> 0]
       ELSE [ok |-> TRUE, alloc_start |-> alloc_start]

\* Faulty variant: a tail too small for a node header is accepted.
alloc_from_region_notail(region, size, align) ==
    LET alloc_start == align_up(start_addr(region), align)
        sum == checked_add(alloc_start, size)
        alloc_end == sum.val
    IN IF ~sum.ok THEN [ok |-> FALSE, alloc_start |-> 0]
       ELSE IF alloc_end > end_addr(region) THEN [ok |-> FALSE, alloc_start |-> 0]
       ELSE [ok |-> TRUE, alloc_start |-> alloc_start]

(***************************************************************************)
(* linked_list.rs:82-100.                                                  *)
(***************************************************************************)
alloc_from_region(region, size, align) ==
    LET alloc_start == align_up(start_addr(region), align)
        sum == checked_add(alloc_start, size)
        alloc_end == sum.val
        overhang == end_addr(region) - alloc_end
    IN IF ~sum.ok THEN [ok |-> FALSE, alloc_start |-> 0]
       ELSE IF alloc_end > end_addr(region) THEN [ok |-> FALSE, alloc_start |-> 0]
       ELSE IF overhang > 0 /\ overhang < ListNodeSize
            THEN [ok |-> FALSE, alloc_start |-> 0]
       ELSE [ok |-> TRUE, alloc_start |-> alloc_start]

\* live allocations are recorded in address order; where a new one goes
InsertPos(list, ptr) == Cardinality({k \in 1..Len(list) : list[k].ptr <= ptr}) + 1
Insert(list, rec) ==
    LET p == InsertPos(list, rec.ptr)
    IN SubSeq(list, 1, p - 1) \o <<rec>> \o SubSeq(list, p, Len(list))

\* the list without its i-th node
Unlink(list, i) == SubSeq(list, 1, i - 1) \o SubSeq(list, i + 1, Len(list))

(***************************************************************************)
(* linked_list.rs:62-80.  Walks the list from the head; the first node     *)
(* alloc_from_region accepts is unlinked and returned with its alloc_start.*)
(***************************************************************************)
RECURSIVE find_region_from(_, _, _, _)
find_region_from(list, i, size, align) ==
    IF i > Len(list)
    THEN [found |-> FALSE, idx |-> 0, region |-> [addr |-> 0, size |-> 0],
          alloc_start |-> 0, list |-> list]
    ELSE LET r == alloc_from_region(list[i], size, align)
         IN IF r.ok
            THEN [found |-> TRUE, idx |-> i, region |-> list[i],
                  alloc_start |-> r.alloc_start, list |-> Unlink(list, i)]
            ELSE find_region_from(list, i + 1, size, align)

\* Faulty variant: the accepted node stays linked.
find_region_nounlink(list, size, align) ==
    [find_region_from(list, 1, size, align) EXCEPT !.list = list]

\* Faulty variant: the scan keeps going and returns the last node that fits.
find_region_lastfit(list, size, align) ==
    LET fits == {i \in 1..Len(list) : alloc_from_region(list[i], size, align).ok}
    IN IF fits = {} THEN find_region_from(list, 1, size, align)
       ELSE LET k == CHOOSE m \in fits : \A x \in fits : x <= m
            IN find_region_from(list, k, size, align)

\* Faulty variant: a scan that finds nothing leaves the list cut off.
find_region_dropping(list, size, align) ==
    LET r == find_region_from(list, 1, size, align)
    IN IF r.found THEN r ELSE [r EXCEPT !.list = <<>>]

find_region(list, size, align) == find_region_from(list, 1, size, align)

\* Faulty variant: the freed region is linked at the end of the list.
add_free_region_tail(list, addr, size) ==
    IF align_up(addr, ListNodeAlign) # addr \/ size < ListNodeSize
    THEN [panic |-> TRUE, list |-> list]
    ELSE [panic |-> FALSE, list |-> list \o <<[addr |-> addr, size |-> size]>>]

\* Faulty variant: the freed node is linked in at the head and once more
\* behind the last node, whose next field then leads back into the list.
add_free_region_cyclic(list, addr, size) ==
    IF align_up(addr, ListNodeAlign) # addr \/ size < ListNodeSize
    THEN [panic |-> TRUE, list |-> list]
    ELSE [panic |-> FALSE,
          list |-> <<[addr |-> addr, size |-> size]>> \o list
                      \o <<[addr |-> addr, size |-> size]>>]

\* Faulty variant: a region that ends where the head node starts is merged
\* with it.
add_free_region_coalesce(list, addr, size) ==
    IF align_up(addr, ListNodeAlign) # addr \/ size < ListNodeSize
    THEN [panic |-> TRUE, list |-> list]
    ELSE IF list # <<>> /\ list[1].addr = addr + size
    THEN [panic |-> FALSE,
          list |-> <<[addr |-> addr, size |-> size + list[1].size]>> \o Tail(list)]
    ELSE [panic |-> FALSE, list |-> <<[addr |-> addr, size |-> size]>> \o list]

(***************************************************************************)
(* linked_list.rs:42-58.  Two assertions, then the node is written at addr *)
(* and becomes head.next.                                                  *)
(***************************************************************************)
add_free_region(list, addr, size) ==
    IF align_up(addr, ListNodeAlign) # addr \/ size < ListNodeSize
    THEN [panic |-> TRUE, list |-> list]
    ELSE [panic |-> FALSE, list |-> <<[addr |-> addr, size |-> size]>> \o list]

NoCall == [op |-> "none", size |-> 0, align |-> 0, ptr |-> NULL]

(***************************************************************************)
(* State of the task executor (src/src/task/exec.rs) and of the scancode   *)
(* bridge between the keyboard interrupt and the consumer task             *)
(* (src/src/task/keyboard.rs).  The allocator above and this part do not   *)
(* read each other's state; each specification moves one of them.          *)
(***************************************************************************)
VARIABLES
    tasks,        \* Exec.tasks: task id -> the task (its kind and history)
    task_queue,   \* Exec.task_queue: ready ids, head first
    waker_cache,  \* Exec.waker_cache: task id -> the waker created for it
    wgen,         \* number of wakers created so far
    held,         \* ids whose waker a task has stored outside the bridge
    epc,          \* where the executor is: "idle", "loop" or "poll"
    cur,          \* the id being polled, 0 when none
    kpc,          \* where the polled keyboard task is inside poll_next
    kbyte,        \* the local `scan` of poll_next
    sq_init,      \* SCANCODE_QUEUE has been initialised
    sq,           \* SCANCODE_QUEUE contents, head first
    wslot,        \* WAKER: the id its registered waker re-enqueues, 0 if none
    wreg,         \* WAKER is inside register()
    wpending,     \* a wake() arrived while WAKER was inside register()
    nscan,        \* number of keyboard interrupts so far
    accepted,     \* every byte whose push succeeded, in push order
    delivered,    \* every byte poll_next returned as Ready, in order
    klast,        \* the step taken last and what it did
    kpanic        \* the panic that halted the kernel, "none" if none

kvars == <<tasks, task_queue, waker_cache, wgen, held, epc, cur, kpc, kbyte,
           sq_init, sq, wslot, wreg, wpending, nscan, accepted, delivered,
           klast, kpanic>>

NoStep == [op |-> "none", id |-> 0, pushed |-> FALSE, signals |-> 0,
           callbacks |-> 0, warned |-> FALSE, created |-> FALSE]

(***************************************************************************)
(* State of the processor and of the allocator lock.  There is one core:   *)
(* normal context (kernel_main, the executor and the tasks) runs while no  *)
(* interrupt handler is active.                                            *)
(***************************************************************************)
VARIABLES
    iflag,        \* the processor's interrupt flag
    istack,       \* the interrupt handlers entered and not yet left,
                  \* innermost last: which interrupt, how far it has come
    alock         \* ALLOCATOR's spin::Mutex is held

ivars == <<iflag, istack, alock>>

(***************************************************************************)
(* State of the boot: the program that was started, what is left of it to  *)
(* execute, the descriptor tables and what the processor has loaded of     *)
(* them, the interrupt controllers, and what was written to the serial     *)
(* line and to the exit port of the emulator.                              *)
(***************************************************************************)
VARIABLES
    prog,         \* "kernel" (main.rs) or "interrupt_test" (tests/)
    bcode,        \* the calls still to be made, next one first
    stack_start,  \* address of the static STACK of gdt.rs
    tss,          \* TSS.interrupt_stack_table, <<>> until TSS is built
    loaded,       \* what lgdt / CS::set_reg / ltr / lidt have loaded
    idt,          \* the vector table: its entries, whether its build
                  \* panicked, and the vectors set_handler was called for
    pics,         \* PICS.initialize() has remapped the controllers
    serial,       \* lines written to the serial port
    exit_port,    \* values written to the emulator's exit port
    pending       \* interrupt lines raised and not yet taken

bvars == <<prog, bcode, stack_start, tss, loaded, idt, pics, serial,
           exit_port, pending>>

(***************************************************************************)
(* State of init_heap (src/src/heap.rs): the pages of the heap range it    *)
(* has mapped and the error it returned.                                   *)
(***************************************************************************)
VARIABLES
    mapped,       \* the pages of the heap range the loop has been through,
                  \* lowest first: whether the page is mapped
    herr          \* the Err init_heap returned, "none" if none

hvars == <<mapped, herr>>

(***************************************************************************)
(* State of the two output channels (src/src/vga_buf.rs WRITER and         *)
(* src/src/serial.rs SERIAL1): the calls of _print that have begun and not *)
(* yet returned, innermost last.                                           *)
(***************************************************************************)
VARIABLES
    prt           \* Seq of [ch, lvl, saved, pc]: the channel of the call,
                  \* the depth of istack it was made at, the interrupt
                  \* flag without_interrupts found, how far it has come

pvars == <<prt>>

(***************************************************************************)
(* State of the processor inside a trampoline (interrupts/mod.rs, the      *)
(* macros handler! and handler_with_errcode!).                             *)
(***************************************************************************)
VARIABLES
    tkind,        \* which macro built the trampoline
    tpc,          \* index of its next instruction, 0 outside a trampoline
    regs,         \* the general-purpose registers the trampoline names
    stk,          \* the stack from the hardware frame upwards, top last
    tentry        \* registers and stack as they were at the entry

tvars == <<tkind, tpc, regs, stk, tentry>>

xvars == <<hvars, pvars, tvars>>
allvars == <<vars, kvars, ivars, bvars, xvars>>

\* heap.rs:5  Size4KiB
PageSize == 4096
\* heap.rs:48-54  the pages from the one that holds HEAP_START to the one
\* that holds HEAP_START + HEAP_SIZE - 1, both included
HeapPages ==
    ((HEAP_START + (HEAP_SIZE - 1)) \div PageSize) - (HEAP_START \div PageSize) + 1

\* mod.rs:152-160  the registers the trampolines save, in push order
SavedRegs == <<"rax", "rcx", "rdx", "rsi", "rdi", "r8", "r9", "r10", "r11">>
Regs == {SavedRegs[i] : i \in 1..Len(SavedRegs)}
NoRegs == [r \in Regs |-> 0]

\* the specifications of the allocator and of the running kernel start
\* after init_heap has mapped the whole range (the external page-frame
\* manager has committed it), outside _print and outside the trampolines
HeapMapped ==
    /\ mapped = [i \in 1..HeapPages |-> TRUE]
    /\ herr = "none"
PrintOff == prt = <<>>
TrampOff ==
    /\ tkind = "none"
    /\ tpc = 0
    /\ regs = NoRegs
    /\ stk = <<>>
    /\ tentry = [regs |-> NoRegs, stk |-> <<>>]
XOff == HeapMapped /\ PrintOff /\ TrampOff

\* the vector table before its lazy static is built
NoIdt == [table |-> <<>>, panic |-> FALSE, calls |-> <<>>]

\* the descriptor tables and the boot program are not followed by the
\* specifications of the running kernel, which start where lib.rs init()
\* is written to end
BootOff ==
    /\ prog = "kernel"
    /\ bcode = <<>>
    /\ stack_start = 0
    /\ tss = <<>>
    /\ loaded = {}
    /\ idt = NoIdt
    /\ pics = FALSE
    /\ serial = <<>>
    /\ exit_port = <<>>
    /\ pending = {}

\* Exec::new() (exec.rs:13-19) and the statics of keyboard.rs:11-12
KInit ==
    /\ tasks = <<>>
    /\ task_queue = <<>>
    /\ waker_cache = <<>>
    /\ wgen = 0
    /\ held = {}
    /\ epc = "idle"
    /\ cur = 0
    /\ kpc = "none"
    /\ kbyte = 0
    /\ sq_init = FALSE
    /\ sq = <<>>
    /\ wslot = 0
    /\ wreg = FALSE
    /\ wpending = FALSE
    /\ nscan = 0
    /\ accepted = <<>>
    /\ delivered = <<>>
    /\ klast = NoStep
    /\ kpanic = "none"

\* LinkedListAlloc::new(): head = ListNode::new(0), head.next = None; the
\* kernel has run lib.rs init(), which ends by enabling interrupts
Init ==
    /\ free = <<>>
    /\ live = <<>>
    /\ heap_size = 0
    /\ last = NoCall
    /\ panicked = FALSE
    /\ KInit
    /\ iflag = TRUE
    /\ istack = <<>>
    /\ alock = FALSE
    /\ BootOff
    /\ XOff

(***************************************************************************)
(* linked_list.rs:37-39 as called once by init_heap (heap.rs:74).       *)
(***************************************************************************)
init(size) ==
    /\ ~panicked
    /\ heap_size = 0
    /\ LET r == add_free_region(free, HEAP_START, size)
       IN /\ free' = r.list
          /\ panicked' = r.panic
    /\ heap_size' = size
    /\ last' = [op |-> "init", size |-> size, align |-> 0, ptr |-> HEAP_START]
    /\ alock' = FALSE
    /\ UNCHANGED <<live, kvars, iflag, istack, bvars, xvars>>

\* Faulty variant: the overhang node is written at alloc_start.
alloc_tail_at_start(lsize, lalign) ==
    /\ ~panicked
    /\ Len(live) < MaxLive
    /\ LET sa == size_align(lsize, lalign)
           f == find_region(free, sa.size, sa.align)
           sum == checked_add(f.alloc_start, sa.size)
           alloc_end == sum.val
           overhang == end_addr(f.region) - alloc_end
           r == add_free_region(f.list, f.alloc_start, overhang)
       IN IF ~f.found
          THEN /\ free' = f.list
               /\ last' = [op |-> "alloc", size |-> lsize, align |-> lalign,
                           ptr |-> NULL]
               /\ UNCHANGED <<live, panicked>>
          ELSE IF ~sum.ok
          THEN /\ panicked' = TRUE
               /\ free' = f.list
               /\ last' = [op |-> "alloc", size |-> lsize, align |-> lalign,
                           ptr |-> NULL]
               /\ UNCHANGED live
          ELSE IF overhang > 0 /\ r.panic
          THEN /\ panicked' = TRUE
               /\ free' = f.list
               /\ last' = [op |-> "alloc", size |-> lsize, align |-> lalign,
                           ptr |-> NULL]
               /\ UNCHANGED live
          ELSE /\ free' = IF overhang > 0 THEN r.list ELSE f.list
               /\ live' = Insert(live, [ptr |-> f.alloc_start, size |-> lsize,
                                        align |-> lalign])
               /\ last' = [op |-> "alloc", size |-> lsize, align |-> lalign,
                           ptr |-> f.alloc_start]
               /\ UNCHANGED panicked
    /\ alock' = FALSE
    /\ UNCHANGED <<heap_size, kvars, iflag, istack, bvars, xvars>>

(***************************************************************************)
(* linked_list.rs:113-127.                                                 *)
(***************************************************************************)
alloc(lsize, lalign) ==
    /\ ~panicked
    /\ Len(live) < MaxLive
    /\ LET sa == size_align(lsize, lalign)
           f == find_region(free, sa.size, sa.align)
           sum == checked_add(f.alloc_start, sa.size)
           alloc_end == sum.val
           overhang == end_addr(f.region) - alloc_end
           r == add_free_region(f.list, alloc_end, overhang)
       IN IF ~f.found
          THEN /\ free' = f.list
               /\ last' = [op |-> "alloc", size |-> lsize, align |-> lalign,
                           ptr |-> NULL]
               /\ UNCHANGED <<live, panicked>>
          ELSE IF ~sum.ok
          THEN /\ panicked' = TRUE
               /\ free' = f.list
               /\ last' = [op |-> "alloc", size |-> lsize, align |-> lalign,
                           ptr |-> NULL]
               /\ UNCHANGED live
          ELSE IF overhang > 0 /\ r.panic
          THEN /\ panicked' = TRUE
               /\ free' = f.list
               /\ last' = [op |-> "alloc", size |-> lsize, align |-> lalign,
                           ptr |-> NULL]
               /\ UNCHANGED live
          ELSE /\ free' = IF overhang > 0 THEN r.list ELSE f.list
               /\ live' = Insert(live, [ptr |-> f.alloc_start, size |-> lsize,
                                        align |-> lalign])
               /\ last' = [op |-> "alloc", size |-> lsize, align |-> lalign,
                           ptr |-> f.alloc_start]
               /\ UNCHANGED panicked
    /\ alock' = FALSE
    /\ UNCHANGED <<heap_size, kvars, iflag, istack, bvars, xvars>>

(***************************************************************************)
(* linked_list.rs:129-132, for the i-th live allocation and its Layout.    *)
(***************************************************************************)
dealloc(i) ==
    /\ ~panicked
    /\ i \in 1..Len(live)
    /\ Len(free) < MaxFree
    /\ LET sa == size_align(live[i].size, live[i].align)
           r == add_free_region(free, live[i].ptr, sa.size)
       IN /\ free' = r.list
          /\ panicked' = r.panic
    /\ live' = Unlink(live, i)
    /\ last' = [op |-> "dealloc", size |-> live[i].size,
                align |-> live[i].align, ptr |-> live[i].ptr]
    /\ alock' = FALSE
    /\ UNCHANGED <<heap_size, kvars, iflag, istack, bvars, xvars>>

Next ==
    \/ \E size \in HeapSizes : init(size)
    \/ \E l \in Layouts : alloc(l[1], l[2])
    \/ \E i \in 1..MaxLive : dealloc(i)

\* the allocator alone: the executor and the bridge stay as constructed
Spec == Init /\ [][Next]_allvars

(***************************************************************************)
(* init_heap (heap.rs:43-78).                                              *)
(***************************************************************************)
\* Faulty variant: a page that could not be mapped is passed over and the
\* loop goes on.
init_heap_page_skip(got_frame, map_ok) ==
    /\ herr = "none"
    /\ heap_size = 0
    /\ Len(mapped) < HeapPages
    /\ mapped' = Append(mapped, got_frame /\ map_ok)
    /\ UNCHANGED herr
    /\ UNCHANGED <<vars, kvars, ivars, bvars, pvars, tvars>>

\* heap.rs:57-68  one turn of `for pg in pg_range`: allocate_frame() gave a
\* frame or None, map_to() gave Ok or Err; the operator `?` returns the
\* error from init_heap
init_heap_page(got_frame, map_ok) ==
    /\ herr = "none"
    /\ heap_size = 0
    /\ Len(mapped) < HeapPages
    /\ IF ~got_frame
       THEN /\ herr' = "FrameAllocationFailed"
            /\ UNCHANGED mapped
       ELSE IF ~map_ok
       THEN /\ herr' = "MapToError"
            /\ UNCHANGED mapped
       ELSE /\ mapped' = Append(mapped, TRUE)
            /\ UNCHANGED herr
    /\ UNCHANGED <<vars, kvars, ivars, bvars, pvars, tvars>>

\* live allocations explored after init_heap
MaxInitLive == 1

\* kern_main of tests/heap_test.rs at the call of init_heap (heap_test.rs:23):
\* no page of the heap range is mapped
HeapInitInit ==
    /\ free = <<>>
    /\ live = <<>>
    /\ heap_size = 0
    /\ last = NoCall
    /\ panicked = FALSE
    /\ KInit
    /\ iflag = TRUE
    /\ istack = <<>>
    /\ alock = FALSE
    /\ BootOff
    /\ mapped = <<>>
    /\ herr = "none"
    /\ PrintOff
    /\ TrampOff

\* init_heap page by page, its call of init after the loop (heap.rs:74),
\* and callers of the allocator before, after and in spite of it
NextHeapInit ==
    \/ \E got_frame, map_ok \in BOOLEAN : init_heap_page(got_frame, map_ok)
    \/ (Len(mapped) = HeapPages /\ herr = "none" /\ init(HEAP_SIZE))
    \/ (Len(live) < MaxInitLive /\ \E l \in Layouts : alloc(l[1], l[2]))
    \/ \E i \in 1..MaxLive : dealloc(i)

SpecHeapInit == HeapInitInit /\ [][NextHeapInit]_allvars

(***************************************************************************)
(* Vocabulary of the properties.                                           *)
(***************************************************************************)
\* the size the allocator reserves for a Layout
NormSize(l) == size_align(l.size, l.align).size
\* [a1, e1) and [a2, e2) have no byte in common
Disjoint(a1, e1, a2, e2) == e1 <= a2 \/ e2 <= a1
HeapEnd == HEAP_START + heap_size
\* the nodes of a list that pass the fit test of a request
FitSet(list, size, align) ==
    {i \in 1..Len(list) : alloc_from_region(list[i], size, align).ok}
MinOf(S) == CHOOSE m \in S : \A x \in S : m <= x
\* the step just taken is a call of alloc / dealloc
AllocStep == last'.op = "alloc"
DeallocStep == last'.op = "dealloc"
\* the normalised request of the call just made
Req == size_align(last'.size, last'.align)

TypeOK ==
    /\ heap_size \in HeapSizes \cup {0}
    /\ panicked \in BOOLEAN
    /\ Len(live) <= MaxLive
    /\ Len(free) <= MaxFree
    /\ last.op \in {"none", "init", "alloc", "dealloc"}

(***************************************************************************)
(* C1: the ranges [p, p + normalized size) of any two simultaneously live  *)
(* allocations are disjoint.                                               *)
(***************************************************************************)
C1_LiveDisjoint ==
    \A i, j \in 1..Len(live) :
        i < j => Disjoint(live[i].ptr, live[i].ptr + NormSize(live[i]),
                          live[j].ptr, live[j].ptr + NormSize(live[j]))

\* three live allocations, the last of them placed in a region that had
\* been freed before (free nodes remain behind it)
C1_Witness ==
    /\ Len(live) = 3
    /\ last.op = "alloc" /\ last.ptr # NULL
    /\ Len(free) = 2

(***************************************************************************)
(* C2: every address alloc returns designates a range inside               *)
(* [heap_start, heap_start + heap_size); when no free node can hold the    *)
(* request alloc returns null; no call panics.                             *)
(***************************************************************************)
C2_LiveInHeap ==
    /\ ~panicked
    /\ \A i \in 1..Len(live) :
          /\ HEAP_START <= live[i].ptr
          /\ live[i].ptr + NormSize(live[i]) <= HeapEnd
    /\ (last.op = "alloc" /\ last.ptr # NULL) =>
          /\ HEAP_START <= last.ptr
          /\ last.ptr + NormSize(last) <= HeapEnd

C2_NullWhenNoFit ==
    AllocStep /\ FitSet(free, Req.size, Req.align) = {} => last'.ptr = NULL

C3_Aligned ==
    /\ \A i \in 1..Len(live) : live[i].ptr % live[i].align = 0
    /\ (last.op = "alloc" /\ last.ptr # NULL) => last.ptr % last.align = 0

\* a 32-aligned allocation taken from a node that started 16 bytes below it
C3_Witness ==
    /\ last.op = "alloc" /\ last.ptr # NULL /\ last.align = 32
    /\ \E i \in 1..Len(live) :
          live[i].ptr + NormSize(live[i]) = last.ptr - 16

(***************************************************************************)
(* C4: alloc is first-fit in list order: the node taken is the earliest    *)
(* node that passes the fit test; and on a fresh heap of HEAP_SIZE bytes   *)
(* the requests 8, 16, 4096 return base, base + 16, base + 32.             *)
(***************************************************************************)
C4_FirstFitStep ==
    AllocStep =>
        LET fits == FitSet(free, Req.size, Req.align)
        IN IF fits = {}
           THEN last'.ptr = NULL /\ free' = free
           ELSE LET k == MinOf(fits)
                    rest == Unlink(free, k)
                IN /\ last'.ptr = align_up(free[k].addr, Req.align)
                   /\ free' = rest \/ (free' # <<>> /\ Tail(free') = rest)

Node(a, sz) == [addr |-> a, size |-> sz]
Live(p, sz, al) == [ptr |-> p, size |-> sz, align |-> al]
Boot0 == free = <<Node(HEAP_START, HEAP_SIZE)>> /\ live = <<>>
Boot1 ==
    /\ free = <<Node(HEAP_START + 16, HEAP_SIZE - 16)>>
    /\ live = <<Live(HEAP_START, 8, 8)>>
Boot2 ==
    /\ free = <<Node(HEAP_START + 32, HEAP_SIZE - 32)>>
    /\ live = <<Live(HEAP_START, 8, 8), Live(HEAP_START + 16, 16, 8)>>
Boot3 ==
    /\ free = <<Node(HEAP_START + 32 + 4096, HEAP_SIZE - 32 - 4096)>>
    /\ live = <<Live(HEAP_START, 8, 8), Live(HEAP_START + 16, 16, 8),
                Live(HEAP_START + 32, 4096, 8)>>
Called(sz, al) == last'.op = "alloc" /\ last'.size = sz /\ last'.align = al

C4_ScenarioStep ==
    /\ (Boot0 /\ Called(8, 8)) => (last'.ptr = HEAP_START /\ Boot1')
    /\ (Boot1 /\ Called(16, 8)) => (last'.ptr = HEAP_START + 16 /\ Boot2')
    /\ (Boot2 /\ Called(4096, 8)) => (last'.ptr = HEAP_START + 32 /\ Boot3')

C4_FirstFit == [][C4_FirstFitStep /\ C4_ScenarioStep]_vars

\* the three requests of the scenario were served, the first was freed,
\* and a request of 32 bytes then passed over the freed 16-byte head node
C4_Witness ==
    /\ heap_size = HEAP_SIZE
    /\ live = <<Live(HEAP_START + 16, 16, 8), Live(HEAP_START + 32, 4096, 8),
                Live(HEAP_START + 32 + 4096, 32, 8)>>
    /\ last = [op |-> "alloc", size |-> 32, align |-> 8,
               ptr |-> HEAP_START + 32 + 4096]
    /\ free = <<Node(HEAP_START + 64 + 4096, HEAP_SIZE - 64 - 4096),
                Node(HEAP_START, 16)>>

(***************************************************************************)
(* Vocabulary of C5..C10.                                                  *)
(***************************************************************************)
\* node end minus allocation end, for a request of (size, align)
TailFor(node, size, align) ==
    end_addr(node) - (align_up(start_addr(node), align) + size)
\* the node of a list an address lies in (0 when in none)
NodeOf(list, p) ==
    LET S == {i \in 1..Len(list) :
                 start_addr(list[i]) <= p /\ p < end_addr(list[i])}
    IN IF S = {} THEN 0 ELSE MinOf(S)
Within(n, a, e) == a <= start_addr(n) /\ end_addr(n) <= e
InSeq(list, x) == \E i \in 1..Len(list) : list[i] = x

(***************************************************************************)
(* C5 as stated: a node whose leftover tail (node end minus allocation     *)
(* end) is smaller than the header size is rejected.  An exact fit has a   *)
(* tail of 0 and is accepted.                                              *)
(***************************************************************************)
C5_AsStated ==
    [][(AllocStep /\ last'.ptr # NULL) =>
          LET k == NodeOf(free, last'.ptr)
          IN k # 0 /\ ~(TailFor(free[k], Req.size, Req.align) < ListNodeSize)]_vars

(***************************************************************************)
(* C5 amended: a node whose leftover tail is not empty and smaller than    *)
(* the header size is rejected (it stays in the list) and the scan goes on *)
(* to the following nodes; a node that fits exactly is accepted and leaves *)
(* no node behind; an accepted node with a tail has the tail reinserted as *)
(* a free node at the list head.                                           *)
(***************************************************************************)
C5_TailStep ==
    AllocStep =>
      /\ \A i \in 1..Len(free) :
            LET t == TailFor(free[i], Req.size, Req.align)
            IN (t > 0 /\ t < ListNodeSize) =>
                  /\ InSeq(free', free[i])
                  /\ NodeOf(free, last'.ptr) # i
      /\ (\E j \in 1..Len(free) :
              TailFor(free[j], Req.size, Req.align) = 0
              \/ TailFor(free[j], Req.size, Req.align) >= ListNodeSize)
            => last'.ptr # NULL
      /\ last'.ptr # NULL =>
            LET k == NodeOf(free, last'.ptr)
                t == TailFor(free[k], Req.size, Req.align)
            IN /\ k # 0
               /\ t = 0 \/ t >= ListNodeSize
               /\ t = 0 => free' = Unlink(free, k)
               /\ t > 0 => free' = <<Node(last'.ptr + Req.size, t)>>
                                      \o Unlink(free, k)

C5_Tail == [][C5_TailStep]_vars

\* the request passed over a node that would have left an 8-byte tail and
\* was served from a later node, whose tail is now the list head
C5_Witness ==
    /\ last.op = "alloc" /\ last.ptr # NULL
    /\ Len(free) = 2
    /\ free[1].addr = last.ptr + NormSize(last)
    /\ TailFor(free[2], NormSize(last), Max(last.align, ListNodeAlign)) = 8

(***************************************************************************)
(* C6: after dealloc of a live region of normalized size S, an immediately *)
(* following alloc of any size <= S (any alignment the freed address       *)
(* satisfies) returns non-null and does not grow the free-node count.      *)
(***************************************************************************)
C6_Reuse ==
    [][(last.op = "dealloc" /\ AllocStep
          /\ last'.size <= NormSize(last)
          /\ last.ptr % last'.align = 0)
         => (last'.ptr # NULL /\ Len(free') <= Len(free))]_vars

(***************************************************************************)
(* C7: dealloc puts the freed region (ptr, normalized size) at the head of *)
(* the free list and leaves the nodes that were there unchanged in         *)
(* address, size and order; the node count grows by one; no step merges    *)
(* free nodes: every node lies inside one former node or one former live   *)
(* allocation.                                                             *)
(***************************************************************************)
C7_DeallocStep ==
    DeallocStep =>
      /\ free' = <<Node(last'.ptr, Req.size)>> \o free
      /\ Len(free') = Len(free) + 1

C7_NoMergeStep ==
    last'.op # "init" =>
      \A i \in 1..Len(free') :
         \/ \E k \in 1..Len(free) :
               Within(free'[i], start_addr(free[k]), end_addr(free[k]))
         \/ \E k \in 1..Len(live) :
               Within(free'[i], live[k].ptr, live[k].ptr + NormSize(live[k]))

C8_AsStated ==
    /\ ~panicked
    /\ last.op \in {"alloc", "dealloc"} =>
         LET sa == size_align(last.size, last.align)
         IN /\ sa.size >= ListNodeSize
            /\ sa.size % sa.align = 0
            /\ sa.align >= ListNodeAlign

(***************************************************************************)
(* C8 amended: for every Layout size_align yields size >= 16, align >= 8   *)
(* and size a multiple of the header alignment 8; size is a multiple of    *)
(* the returned align whenever the Layout's size is not 0; the assertions  *)
(* of add_free_region never fail.                                          *)
(***************************************************************************)
C8_SizeAlign ==
    /\ ~panicked
    /\ last.op \in {"alloc", "dealloc"} =>
         LET sa == size_align(last.size, last.align)
         IN /\ sa.size >= ListNodeSize
            /\ sa.size % ListNodeAlign = 0
            /\ last.size # 0 => sa.size % sa.align = 0
            /\ sa.align >= ListNodeAlign
    /\ \A i \in 1..Len(free) :
          /\ align_up(free[i].addr, ListNodeAlign) = free[i].addr
          /\ free[i].size >= ListNodeSize

\* a region obtained for a Layout of 8 bytes has been handed back and sits
\* at the list head as a 16-byte node, on top of a reinserted overhang
C8_Witness ==
    /\ last.op = "dealloc" /\ last.size = 8
    /\ Len(free) = 2
    /\ free[1] = Node(last.ptr, ListNodeSize)
    /\ ~panicked

(***************************************************************************)
(* C9: the free nodes are pairwise disjoint, each lies inside the heap,    *)
(* each is at least a header in size, and none overlaps a live allocation. *)
(***************************************************************************)
C9_FreeListSound ==
    /\ \A i, j \in 1..Len(free) :
          i < j => Disjoint(start_addr(free[i]), end_addr(free[i]),
                            start_addr(free[j]), end_addr(free[j]))
    /\ \A i \in 1..Len(free) :
          /\ Within(free[i], HEAP_START, HeapEnd)
          /\ free[i].size >= ListNodeSize
    /\ \A i \in 1..Len(free), k \in 1..Len(live) :
          Disjoint(start_addr(free[i]), end_addr(free[i]),
                   live[k].ptr, live[k].ptr + NormSize(live[k]))

\* two free nodes and two live allocations, after a request was served
C9_Witness ==
    /\ Len(free) = 2 /\ Len(live) = 2
    /\ last.op = "alloc" /\ last.ptr # NULL
    /\ free[1].addr = last.ptr + NormSize(last)

(***************************************************************************)
(* C10: an alloc that returns null leaves the free list (nodes, sizes,     *)
(* order) and the live allocations as they were.                           *)
(***************************************************************************)
C10_NullStep ==
    (AllocStep /\ last'.ptr = NULL) =>
        /\ free' = free
        /\ live' = live
        /\ heap_size' = heap_size
        /\ panicked' = panicked

C10_NullKeepsState == [][C10_NullStep]_vars

\* a request failed after the scan had walked two nodes, with allocations
\* live
C10_Witness ==
    /\ last.op = "alloc" /\ last.ptr = NULL
    /\ Len(free) = 2
    /\ Len(live) >= 1

(***************************************************************************)
(* Interrupts (src/src/interrupts) and the allocator lock (src/src/heap.rs).*)
(***************************************************************************)
\* mod.rs:60-70  InterruptIndex: the line of the interrupt controller; a
\* lower line has priority
Irqs == {"timer", "kbd"}
IrqLine(k) == IF k = "timer" THEN 0 ELSE 1
\* mod.rs:61-70  InterruptIndex: Timer = PIC_1_OFFSET = 32, Keyboard = 33
Vector(k) == IF k = "timer" THEN 32 ELSE 33
\* mod.rs:272-336  the exception handlers, by their names in the source
Exceptions == {"zero_div", "breakpt", "invalid_op", "double_fault",
               "pg_fault"}

\* idt.rs:37-41 and 50-53: EntryOptions::new() calls disable_interrupts(true),
\* which sets bit 8 of the gate options.  With bits 9..11 set the gate type
\* is then 0b1111, a trap gate: the processor leaves the interrupt flag as
\* it is when it enters the handler.
GateBit8 == TRUE

\* the innermost active handler is that of interrupt k and stands at pc
InHandler(k, pc) ==
    /\ istack # <<>>
    /\ istack[Len(istack)].irq = k
    /\ istack[Len(istack)].pc = pc
\* the innermost handler moves on to pc
AtTop(pc) == [istack EXCEPT ![Len(istack)].pc = pc]
\* mod.rs:262-268  what the processor pushes on entry (ExceptionStackFrame;
\* of its fields the saved flags are kept, and the error code, 0 where the
\* processor pushes none), and the handler's record: the end-of-interrupt
\* vectors it has sent, whether it has logged, and the text the page-fault
\* handler has put into its log for the error code
NewFrame(k) == [irq |-> k, pc |-> "body", eoi |-> <<>>, logged |-> FALSE,
                rflags |-> iflag, err |-> 0, error |-> ""]
\* the controller has passed on the interrupt of frame i and has not yet
\* been told its end
InService(i) ==
    /\ istack[i].irq \in Irqs
    /\ istack[i].pc \in {"body", "eoi", "locked"}
\* mod.rs:53-55  PICS is a spin::Mutex: some handler holds its guard
PicsHeld == \E i \in 1..Len(istack) : istack[i].pc \in {"locked", "unlock"}
\* the running code is the loop of hlt_loop()
Halted == istack # <<>> /\ istack[Len(istack)].pc = "halt"

(***************************************************************************)
(* The processor takes interrupt k (mod.rs:228-229, the IDT entries of the *)
(* timer and the keyboard): the interrupt flag must be set, and the        *)
(* controller passes on an interrupt only while no interrupt of the same   *)
(* or a higher priority awaits its end-of-interrupt.                       *)
(***************************************************************************)
irq_enter(k) ==
    /\ iflag
    /\ \A i \in 1..Len(istack) :
          InService(i) => IrqLine(k) < IrqLine(istack[i].irq)
    /\ istack' = Append(istack, NewFrame(k))
    /\ iflag' = IF GateBit8 THEN iflag ELSE FALSE
    /\ UNCHANGED alock
    /\ UNCHANGED <<vars, kvars, bvars, xvars>>

\* mod.rs:83-86  the body of the timer handler, print!("")
timer_interrupt_handler ==
    /\ InHandler("timer", "body")
    /\ istack' = AtTop("eoi")
    /\ UNCHANGED <<iflag, alock>>
    /\ UNCHANGED <<vars, kvars, bvars, xvars>>

\* mod.rs:89 and 114  PICS.lock(): spins while another handler has the guard
pics_lock ==
    /\ istack # <<>>
    /\ istack[Len(istack)].pc = "eoi"
    /\ ~PicsHeld
    /\ istack' = AtTop("locked")
    /\ UNCHANGED <<iflag, alock>>
    /\ UNCHANGED <<vars, kvars, bvars, xvars>>

\* Faulty variant: the keyboard handler acknowledges the timer's vector.
notify_end_of_interrupt_timer ==
    /\ istack # <<>>
    /\ istack[Len(istack)].pc = "locked"
    /\ istack' = [istack EXCEPT ![Len(istack)].pc = "unlock",
                                ![Len(istack)].eoi = Append(@, Vector("timer"))]
    /\ UNCHANGED <<iflag, alock>>
    /\ UNCHANGED <<vars, kvars, bvars, xvars>>

\* mod.rs:90 and 115  notify_end_of_interrupt with the handler's own
\* InterruptIndex
notify_end_of_interrupt ==
    /\ istack # <<>>
    /\ istack[Len(istack)].pc = "locked"
    /\ istack' = [istack EXCEPT
                    ![Len(istack)].pc = "unlock",
                    ![Len(istack)].eoi =
                        Append(@, Vector(istack[Len(istack)].irq))]
    /\ UNCHANGED <<iflag, alock>>
    /\ UNCHANGED <<vars, kvars, bvars, xvars>>

\* mod.rs:90 and 115  the guard of PICS is a temporary: it is dropped when
\* the statement ends
pics_unlock ==
    /\ istack # <<>>
    /\ istack[Len(istack)].pc = "unlock"
    /\ istack' = AtTop("iret")
    /\ UNCHANGED <<iflag, alock>>
    /\ UNCHANGED <<vars, kvars, bvars, xvars>>

(***************************************************************************)
(* The processor raises exception e in the running code (mod.rs:220-227,   *)
(* the IDT entries 0, 3, 6, 8 and 14).  The gates are trap gates as well.  *)
(* The loop of hlt_loop() executes hlt and jmp only and raises nothing.    *)
(* For a page fault the processor pushes the error code err_code.          *)
(***************************************************************************)
exc_enter(e, err_code) ==
    /\ ~Halted
    /\ istack' = Append(istack, [NewFrame(e) EXCEPT !.err = err_code])
    /\ iflag' = IF GateBit8 THEN iflag ELSE FALSE
    /\ UNCHANGED alock
    /\ UNCHANGED <<vars, kvars, bvars, xvars>>

\* Faulty variant: every exception handler returns after logging.
exception_handler_return ==
    /\ istack # <<>>
    /\ istack[Len(istack)].irq \in Exceptions
    /\ istack[Len(istack)].pc = "body"
    /\ istack' = [istack EXCEPT ![Len(istack)].logged = TRUE,
                                ![Len(istack)].pc = "iret"]
    /\ UNCHANGED <<iflag, alock>>
    /\ UNCHANGED <<vars, kvars, bvars, xvars>>

\* mod.rs:312-319  `let error = match err_code { .. }`
pg_fault_error(err_code) ==
    CASE err_code = 1 -> "PROTECTION_VIOLATION"
      [] err_code = 2 -> "CAUSED_BY_WRITE"
      [] err_code = 4 -> "USER_MODE"
      [] err_code = 8 -> "MALFORMED_TABLE"
      [] err_code = 16 -> "INSTRUCTION_FETCH"
      [] OTHER -> "UNKNOWN"

(***************************************************************************)
(* mod.rs:272-299 and 310-336.  Every exception handler prints; the one of *)
(* the breakpoint ends there and returns to its trampoline, the others     *)
(* call hlt_loop() and have the return type "!".  The page-fault handler   *)
(* prints `error` after "Error Code: ".                                    *)
(***************************************************************************)
exception_handler ==
    /\ istack # <<>>
    /\ istack[Len(istack)].irq \in Exceptions
    /\ istack[Len(istack)].pc = "body"
    /\ istack' = [istack EXCEPT
                    ![Len(istack)].logged = TRUE,
                    ![Len(istack)].error =
                        IF istack[Len(istack)].irq = "pg_fault"
                        THEN pg_fault_error(istack[Len(istack)].err)
                        ELSE "",
                    ![Len(istack)].pc =
                        IF istack[Len(istack)].irq = "breakpt"
                        THEN "iret" ELSE "halt"]
    /\ UNCHANGED <<iflag, alock>>
    /\ UNCHANGED <<vars, kvars, bvars, xvars>>

\* mod.rs:146-178  the end of the trampoline: the saved registers are
\* popped and iretq restores the flags of the interrupted code
irq_exit ==
    /\ istack # <<>>
    /\ istack[Len(istack)].pc = "iret"
    /\ istack' = SubSeq(istack, 1, Len(istack) - 1)
    /\ iflag' = istack[Len(istack)].rflags
    /\ UNCHANGED alock
    /\ UNCHANGED <<vars, kvars, bvars, xvars>>

\* heap.rs:28-30  Locked::lock() is spin::Mutex::lock() and nothing else;
\* normal context calls it at the start of alloc and of dealloc
\* (linked_list.rs:115 and 131) and in init_heap (heap.rs:74)
lock ==
    /\ istack = <<>>
    /\ ~alock
    /\ alock' = TRUE
    /\ UNCHANGED <<iflag, istack>>
    /\ UNCHANGED <<vars, kvars, bvars, xvars>>

(***************************************************************************)
(* Task executor and scancode bridge.                                      *)
(***************************************************************************)
\* keyboard.rs:23  ArrayQueue::new(128)
QueueCap == 128
\* exec.rs:16  ArrayQueue::new(100)
ReadyCap == 100

\* what a task is: an immediately finishing future, the keyboard consumer
\* print_keypresses, or a future that may wake itself, store its waker and
\* finish or not in any combination
Kinds == {"ready", "kbd", "generic"}
Outcomes == [wake : BOOLEAN, hold : BOOLEAN, done : BOOLEAN]

Step(op, id) == [NoStep EXCEPT !.op = op, !.id = id]
NewTask(kind) == [kind |-> kind, waker |-> 0, started |-> FALSE,
                  woken |-> FALSE]
Without(f, id) == [i \in (DOMAIN f) \ {id} |-> f[i]]
With(f, id, v) == [i \in (DOMAIN f) \cup {id} |-> IF i = id THEN v ELSE f[i]]
\* history: the wake callback of task id has been invoked since the latest
\* poll of the task began
Woken(t, id) == IF id \in DOMAIN t THEN [t EXCEPT ![id].woken = TRUE] ELSE t

(***************************************************************************)
(* The wake callback of a task: re-enqueue its identifier into the ready   *)
(* queue; a full queue is a fatal error.                                   *)
(***************************************************************************)
wake_task(q, id) ==
    IF Len(q) < ReadyCap THEN [q |-> Append(q, id), panic |-> FALSE]
                         ELSE [q |-> q, panic |-> TRUE]

\* Faulty variant: the new id goes to the head of the ready queue.
spawn_front(id, kind) ==
    /\ kpanic = "none"
    /\ epc = "idle"
    /\ tasks' = With(tasks, id, NewTask(kind))
    /\ IF id \in DOMAIN tasks
       THEN /\ kpanic' = "dup_task"
            /\ UNCHANGED task_queue
       ELSE IF Len(task_queue) >= ReadyCap
       THEN /\ kpanic' = "queue_full"
            /\ UNCHANGED task_queue
       ELSE /\ task_queue' = <<id>> \o task_queue
            /\ UNCHANGED kpanic
    /\ klast' = Step("spawn", id)
    /\ UNCHANGED <<waker_cache, wgen, held, epc, cur, kpc, kbyte, sq_init, sq,
                   wslot, wreg, wpending, nscan, accepted, delivered>>
    /\ UNCHANGED <<vars, ivars, bvars, xvars>>

\* Faulty variant: a full ready queue drops the id without a panic.
spawn_drop(id, kind) ==
    /\ kpanic = "none"
    /\ epc = "idle"
    /\ tasks' = With(tasks, id, NewTask(kind))
    /\ IF id \in DOMAIN tasks
       THEN /\ kpanic' = "dup_task"
            /\ UNCHANGED task_queue
       ELSE IF Len(task_queue) >= ReadyCap
       THEN UNCHANGED <<kpanic, task_queue>>
       ELSE /\ task_queue' = Append(task_queue, id)
            /\ UNCHANGED kpanic
    /\ klast' = Step("spawn", id)
    /\ UNCHANGED <<waker_cache, wgen, held, epc, cur, kpc, kbyte, sq_init, sq,
                   wslot, wreg, wpending, nscan, accepted, delivered>>
    /\ UNCHANGED <<vars, ivars, bvars, xvars>>

(***************************************************************************)
(* exec.rs:21-27.  BTreeMap::insert stores the new task even when the id   *)
(* was present; the panic comes after it.  Called between drains only:     *)
(* spawn and run_ready_tasks both take &mut self.                          *)
(***************************************************************************)
spawn(id, kind) ==
    /\ kpanic = "none"
    /\ epc = "idle"
    /\ tasks' = With(tasks, id, NewTask(kind))
    /\ IF id \in DOMAIN tasks
       THEN /\ kpanic' = "dup_task"
            /\ UNCHANGED task_queue
       ELSE IF Len(task_queue) >= ReadyCap
       THEN /\ kpanic' = "queue_full"
            /\ UNCHANGED task_queue
       ELSE /\ task_queue' = Append(task_queue, id)
            /\ UNCHANGED kpanic
    /\ klast' = Step("spawn", id)
    /\ UNCHANGED <<waker_cache, wgen, held, epc, cur, kpc, kbyte, sq_init, sq,
                   wslot, wreg, wpending, nscan, accepted, delivered>>
    /\ UNCHANGED <<vars, ivars, bvars, xvars>>

\* the executor enters run_ready_tasks (exec.rs:29-35)
run_begin ==
    /\ kpanic = "none"
    /\ epc = "idle"
    /\ epc' = "loop"
    /\ klast' = Step("run", 0)
    /\ UNCHANGED <<tasks, task_queue, waker_cache, wgen, held, cur, kpc, kbyte,
                   sq_init, sq, wslot, wreg, wpending, nscan, accepted,
                   delivered, kpanic>>
    /\ UNCHANGED <<vars, ivars, bvars, xvars>>

\* Faulty variant: the waker is created before the task is looked up.
pop_ready_eager ==
    /\ kpanic = "none"
    /\ epc = "loop"
    /\ IF task_queue = <<>>
       THEN /\ epc' = "idle"
            /\ klast' = Step("return", 0)
            /\ UNCHANGED <<tasks, task_queue, waker_cache, wgen, cur, kpc>>
       ELSE LET id == Head(task_queue)
            IN /\ task_queue' = Tail(task_queue)
               /\ IF id \notin DOMAIN tasks
                  THEN /\ klast' = Step("skip", id)
                       /\ waker_cache' = With(waker_cache, id, wgen + 1)
                       /\ wgen' = wgen + 1
                       /\ UNCHANGED <<tasks, epc, cur, kpc>>
                  ELSE LET cached == id \in DOMAIN waker_cache
                           w == IF cached THEN waker_cache[id] ELSE wgen + 1
                       IN /\ waker_cache' = With(waker_cache, id, w)
                          /\ wgen' = IF cached THEN wgen ELSE wgen + 1
                          /\ tasks' = [tasks EXCEPT ![id].waker = w,
                                                    ![id].woken = FALSE]
                          /\ cur' = id
                          /\ epc' = "poll"
                          /\ kpc' = IF tasks[id].kind # "kbd" THEN "none"
                                    ELSE IF tasks[id].started THEN "pop1"
                                    ELSE "new"
                          /\ klast' = [Step("take", id) EXCEPT
                                          !.created = ~cached]
    /\ UNCHANGED <<held, kbyte, sq_init, sq, wslot, wreg, wpending, nscan,
                   accepted, delivered, kpanic>>
    /\ UNCHANGED <<vars, ivars, bvars, xvars>>

\* Faulty variant: insert instead of or_insert_with, a new waker per poll.
pop_ready_fresh ==
    /\ kpanic = "none"
    /\ epc = "loop"
    /\ IF task_queue = <<>>
       THEN /\ epc' = "idle"
            /\ klast' = Step("return", 0)
            /\ UNCHANGED <<tasks, task_queue, waker_cache, wgen, cur, kpc>>
       ELSE LET id == Head(task_queue)
            IN /\ task_queue' = Tail(task_queue)
               /\ IF id \notin DOMAIN tasks
                  THEN /\ klast' = Step("skip", id)
                       /\ UNCHANGED <<tasks, waker_cache, wgen, epc, cur, kpc>>
                  ELSE LET cached == id \in DOMAIN waker_cache
                           w == wgen + 1
                       IN /\ waker_cache' = With(waker_cache, id, w)
                          /\ wgen' = wgen + 1
                          /\ tasks' = [tasks EXCEPT ![id].waker = w,
                                                    ![id].woken = FALSE]
                          /\ cur' = id
                          /\ epc' = "poll"
                          /\ kpc' = IF tasks[id].kind # "kbd" THEN "none"
                                    ELSE IF tasks[id].started THEN "pop1"
                                    ELSE "new"
                          /\ klast' = [Step("take", id) EXCEPT
                                          !.created = ~cached]
    /\ UNCHANGED <<held, kbyte, sq_init, sq, wslot, wreg, wpending, nscan,
                   accepted, delivered, kpanic>>
    /\ UNCHANGED <<vars, ivars, bvars, xvars>>

(***************************************************************************)
(* exec.rs:36-45.  One turn of `while let Some(task_id) = pop()` up to the *)
(* call of poll: the loop ends on an empty queue, an id without a task is  *)
(* passed over, otherwise the cached waker is fetched or created.          *)
(***************************************************************************)
pop_ready ==
    /\ kpanic = "none"
    /\ epc = "loop"
    /\ IF task_queue = <<>>
       THEN /\ epc' = "idle"
            /\ klast' = Step("return", 0)
            /\ UNCHANGED <<tasks, task_queue, waker_cache, wgen, cur, kpc>>
       ELSE LET id == Head(task_queue)
            IN /\ task_queue' = Tail(task_queue)
               /\ IF id \notin DOMAIN tasks
                  THEN /\ klast' = Step("skip", id)
                       /\ UNCHANGED <<tasks, waker_cache, wgen, epc, cur, kpc>>
                  ELSE LET cached == id \in DOMAIN waker_cache
                           w == IF cached THEN waker_cache[id] ELSE wgen + 1
                       IN /\ waker_cache' = With(waker_cache, id, w)
                          /\ wgen' = IF cached THEN wgen ELSE wgen + 1
                          /\ tasks' = [tasks EXCEPT ![id].waker = w,
                                                    ![id].woken = FALSE]
                          /\ cur' = id
                          /\ epc' = "poll"
                          /\ kpc' = IF tasks[id].kind # "kbd" THEN "none"
                                    ELSE IF tasks[id].started THEN "pop1"
                                    ELSE "new"
                          /\ klast' = [Step("take", id) EXCEPT
                                          !.created = ~cached]
    /\ UNCHANGED <<held, kbyte, sq_init, sq, wslot, wreg, wpending, nscan,
                   accepted, delivered, kpanic>>
    /\ UNCHANGED <<vars, ivars, bvars, xvars>>

\* Faulty variant: the finished task is removed, its waker stays cached.
Finish_keepwaker(id) ==
    /\ tasks' = Without(tasks, id)
    /\ UNCHANGED waker_cache

\* Faulty variant: the waker is removed, the finished task stays in the table.
Finish_keeptask(id) ==
    /\ waker_cache' = Without(waker_cache, id)
    /\ UNCHANGED tasks

\* exec.rs:46-52: Poll::Ready(()) removes the task and its waker
Finish(id) ==
    /\ tasks' = Without(tasks, id)
    /\ waker_cache' = Without(waker_cache, id)

\* exec.rs:46-53 for a future that finishes at its first poll
poll_ready ==
    /\ kpanic = "none"
    /\ epc = "poll" /\ tasks[cur].kind = "ready"
    /\ Finish(cur)
    /\ epc' = "loop"
    /\ cur' = 0
    /\ klast' = Step("done", cur)
    /\ UNCHANGED <<task_queue, wgen, held, kpc, kbyte, sq_init, sq, wslot,
                   wreg, wpending, nscan, accepted, delivered, kpanic>>
    /\ UNCHANGED <<vars, ivars, bvars, xvars>>

(***************************************************************************)
(* exec.rs:46-53 for an arbitrary future: during the poll it may invoke    *)
(* the waker of its context, may store a clone of it, and returns Ready or *)
(* Pending.                                                                *)
(***************************************************************************)
poll_generic(o) ==
    /\ kpanic = "none"
    /\ epc = "poll" /\ tasks[cur].kind = "generic"
    /\ LET r == wake_task(task_queue, cur)
       IN IF o.wake
          THEN /\ task_queue' = r.q
               /\ kpanic' = IF r.panic THEN "wake_full" ELSE "none"
          ELSE UNCHANGED <<task_queue, kpanic>>
    /\ held' = IF o.hold THEN held \cup {cur} ELSE held
    /\ IF o.done
       THEN Finish(cur)
       ELSE /\ tasks' = IF o.wake THEN Woken(tasks, cur) ELSE tasks
            /\ UNCHANGED waker_cache
    /\ epc' = "loop"
    /\ cur' = 0
    /\ klast' = [Step(IF o.done THEN "done" ELSE "pending", cur) EXCEPT
                    !.callbacks = IF o.wake THEN 1 ELSE 0]
    /\ UNCHANGED <<wgen, kpc, kbyte, sq_init, sq, wslot, wreg, wpending,
                   nscan, accepted, delivered>>
    /\ UNCHANGED <<vars, ivars, bvars, xvars>>

\* a waker stored by a task is invoked (by value) from outside its poll
ext_wake(id) ==
    /\ kpanic = "none"
    /\ id \in held
    /\ held' = held \ {id}
    /\ LET r == wake_task(task_queue, id)
       IN /\ task_queue' = r.q
          /\ kpanic' = IF r.panic THEN "wake_full" ELSE "none"
    /\ klast' = [Step("ext_wake", id) EXCEPT !.callbacks = 1]
    /\ tasks' = Woken(tasks, id)
    /\ UNCHANGED <<waker_cache, wgen, epc, cur, kpc, kbyte, sq_init,
                   sq, wslot, wreg, wpending, nscan, accepted, delivered>>
    /\ UNCHANGED <<vars, ivars, bvars, xvars>>

(***************************************************************************)
(* The keyboard task print_keypresses (keyboard.rs:69-83): its first poll  *)
(* creates the ScancodeStream, then every poll runs poll_next until it     *)
(* returns Pending; a Ready byte is consumed and poll_next is called       *)
(* again.  The keyboard interrupt can arrive between any two steps.        *)
(***************************************************************************)
InKbd(pc) == kpanic = "none" /\ epc = "poll" /\ tasks[cur].kind = "kbd" /\ kpc = pc

\* Faulty variant: init_once in place of try_init_once().expect(..): a
\* second call puts a new, empty queue in the place of the existing one.
stream_new_reset ==
    /\ InKbd("new")
    /\ sq_init' = TRUE
    /\ sq' = <<>>
    /\ tasks' = [tasks EXCEPT ![cur].started = TRUE]
    /\ kpc' = "pop1"
    /\ klast' = Step("new", cur)
    /\ UNCHANGED <<task_queue, waker_cache, wgen, held, epc, cur, kbyte, wslot,
                   wreg, wpending, nscan, accepted, delivered, kpanic>>
    /\ UNCHANGED <<vars, ivars, bvars, xvars>>

\* keyboard.rs:21-26  ScancodeStream::new()
stream_new ==
    /\ InKbd("new")
    /\ IF sq_init
       THEN /\ kpanic' = "stream_twice"
            /\ UNCHANGED <<sq_init, sq, tasks, kpc>>
       ELSE /\ sq_init' = TRUE
            /\ sq' = <<>>
            /\ tasks' = [tasks EXCEPT ![cur].started = TRUE]
            /\ kpc' = "pop1"
            /\ UNCHANGED kpanic
    /\ klast' = Step("new", cur)
    /\ UNCHANGED <<task_queue, waker_cache, wgen, held, epc, cur, kbyte, wslot,
                   wreg, wpending, nscan, accepted, delivered>>
    /\ UNCHANGED <<vars, ivars, bvars, xvars>>

\* keyboard.rs:33-39  try_get().expect(..) and the first queue.pop()
poll_next_pop1 ==
    /\ InKbd("pop1")
    /\ IF ~sq_init
       THEN /\ kpanic' = "stream_uninit"
            /\ klast' = Step("pop1", cur)
            /\ UNCHANGED <<sq, kbyte, delivered, kpc>>
       ELSE IF sq # <<>>
       THEN /\ sq' = Tail(sq)
            /\ kbyte' = Head(sq)
            /\ delivered' = Append(delivered, Head(sq))
            /\ klast' = Step("ready", cur)
            /\ UNCHANGED <<kpc, kpanic>>
       ELSE /\ kpc' = "reg"
            /\ klast' = Step("pop1", cur)
            /\ UNCHANGED <<sq, kbyte, delivered, kpanic>>
    /\ UNCHANGED <<tasks, task_queue, waker_cache, wgen, held, epc, cur,
                   sq_init, wslot, wreg, wpending, nscan, accepted>>
    /\ UNCHANGED <<vars, ivars, bvars, xvars>>

\* keyboard.rs:41  WAKER.register(..): the register is marked as being
\* written (AtomicWaker REGISTERING)
register_begin ==
    /\ InKbd("reg")
    /\ wreg' = TRUE
    /\ kpc' = "reg2"
    /\ klast' = Step("reg", cur)
    /\ UNCHANGED <<tasks, task_queue, waker_cache, wgen, held, epc, cur, kbyte,
                   sq_init, sq, wslot, wpending, nscan, accepted, delivered,
                   kpanic>>
    /\ UNCHANGED <<vars, ivars, bvars, xvars>>

\* keyboard.rs:41  WAKER.register(..) completes: the waker of the context
\* is in the slot, unless a wake() arrived meanwhile, in which case it is
\* taken out again and invoked
register_end ==
    /\ InKbd("reg2")
    /\ wreg' = FALSE
    /\ wpending' = FALSE
    /\ LET r == wake_task(task_queue, cur)
       IN IF wpending
          THEN /\ wslot' = 0
               /\ task_queue' = r.q
               /\ kpanic' = IF r.panic THEN "wake_full" ELSE "none"
               /\ klast' = [Step("registered", cur) EXCEPT !.callbacks = 1]
          ELSE /\ wslot' = cur
               /\ klast' = Step("registered", cur)
               /\ UNCHANGED <<task_queue, kpanic>>
    /\ kpc' = "pop2"
    /\ tasks' = IF wpending THEN Woken(tasks, cur) ELSE tasks
    /\ UNCHANGED <<waker_cache, wgen, held, epc, cur, kbyte, sq_init, sq,
                   nscan, accepted, delivered>>
    /\ UNCHANGED <<vars, ivars, bvars, xvars>>

\* Faulty variant: Pending is returned right after register(), without the
\* second look at the queue.
poll_next_pop2_nocheck ==
    /\ InKbd("pop2")
    /\ kpc' = "none"
    /\ epc' = "loop"
    /\ cur' = 0
    /\ klast' = Step("pending", cur)
    /\ UNCHANGED <<sq, kbyte>>
    /\ UNCHANGED <<tasks, task_queue, waker_cache, wgen, held, sq_init, wslot,
                   wreg, wpending, nscan, accepted, delivered, kpanic>>
    /\ UNCHANGED <<vars, ivars, bvars, xvars>>

\* Faulty variant: a task that returns Pending is put back into the ready
\* queue by the executor.
poll_next_pop2_requeue ==
    /\ InKbd("pop2")
    /\ IF sq # <<>>
       THEN /\ sq' = Tail(sq)
            /\ kbyte' = Head(sq)
            /\ kpc' = "take"
            /\ klast' = Step("pop2", cur)
            /\ UNCHANGED <<epc, cur, task_queue>>
       ELSE /\ kpc' = "none"
            /\ epc' = "loop"
            /\ cur' = 0
            /\ klast' = Step("pending", cur)
            /\ task_queue' = Append(task_queue, cur)
            /\ UNCHANGED <<sq, kbyte>>
    /\ UNCHANGED <<tasks, waker_cache, wgen, held, sq_init, wslot,
                   wreg, wpending, nscan, accepted, delivered, kpanic>>
    /\ UNCHANGED <<vars, ivars, bvars, xvars>>

\* keyboard.rs:42-48  the second queue.pop(); None returns Poll::Pending to
\* the executor (exec.rs:52)
poll_next_pop2 ==
    /\ InKbd("pop2")
    /\ IF sq # <<>>
       THEN /\ sq' = Tail(sq)
            /\ kbyte' = Head(sq)
            /\ kpc' = "take"
            /\ klast' = Step("pop2", cur)
            /\ UNCHANGED <<epc, cur>>
       ELSE /\ kpc' = "none"
            /\ epc' = "loop"
            /\ cur' = 0
            /\ klast' = Step("pending", cur)
            /\ UNCHANGED <<sq, kbyte>>
    /\ UNCHANGED <<tasks, task_queue, waker_cache, wgen, held, sq_init, wslot,
                   wreg, wpending, nscan, accepted, delivered, kpanic>>
    /\ UNCHANGED <<vars, ivars, bvars, xvars>>

\* Faulty variant: the byte of the second pop is thrown away.
poll_next_take_drop ==
    /\ InKbd("take")
    /\ wslot' = 0
    /\ kpc' = "pop1"
    /\ klast' = Step("pop1", cur)
    /\ UNCHANGED <<tasks, task_queue, waker_cache, wgen, held, epc, cur, kbyte,
                   sq_init, sq, wreg, wpending, nscan, accepted, delivered,
                   kpanic>>
    /\ UNCHANGED <<vars, ivars, bvars, xvars>>

\* keyboard.rs:44-45  WAKER.take() and Poll::Ready(Some(scan))
poll_next_take ==
    /\ InKbd("take")
    /\ wslot' = 0
    /\ delivered' = Append(delivered, kbyte)
    /\ kpc' = "pop1"
    /\ klast' = Step("ready", cur)
    /\ UNCHANGED <<tasks, task_queue, waker_cache, wgen, held, epc, cur, kbyte,
                   sq_init, sq, wreg, wpending, nscan, accepted, kpanic>>
    /\ UNCHANGED <<vars, ivars, bvars, xvars>>

\* Faulty variant: force_push, a full queue gives up its oldest byte.
queue_push_force(q, x) ==
    IF Len(q) >= QueueCap THEN [ok |-> TRUE, q |-> Append(Tail(q), x)]
                          ELSE [ok |-> TRUE, q |-> Append(q, x)]

\* keyboard.rs:59  queue.push(scan): refused when the queue is full
queue_push(q, x) ==
    IF Len(q) >= QueueCap THEN [ok |-> FALSE, q |-> q]
                          ELSE [ok |-> TRUE, q |-> Append(q, x)]

\* Faulty variant: the waker is invoked by reference and stays registered.
waker_wake_keep(slot, registering, rq) ==
    IF registering
    THEN [slot |-> slot, pending |-> TRUE, q |-> rq, panic |-> FALSE,
          callbacks |-> 0]
    ELSE IF slot # 0
    THEN [slot |-> slot, pending |-> FALSE, q |-> wake_task(rq, slot).q,
          panic |-> wake_task(rq, slot).panic, callbacks |-> 1]
    ELSE [slot |-> 0, pending |-> FALSE, q |-> rq, panic |-> FALSE,
          callbacks |-> 0]

\* keyboard.rs:62  WAKER.wake(), given the slot, whether register() is
\* under way, and the ready queue the waker re-enqueues into
waker_wake(slot, registering, rq) ==
    IF registering
    THEN [slot |-> slot, pending |-> TRUE, q |-> rq, panic |-> FALSE,
          callbacks |-> 0]
    ELSE IF slot # 0
    THEN [slot |-> 0, pending |-> FALSE, q |-> wake_task(rq, slot).q,
          panic |-> wake_task(rq, slot).panic, callbacks |-> 1]
    ELSE [slot |-> 0, pending |-> FALSE, q |-> rq, panic |-> FALSE,
          callbacks |-> 0]

\* Faulty variant: WAKER.wake() is called whether or not the push succeeded.
add_scancode_wake_always(scan) ==
    /\ kpanic = "none"
    /\ nscan' = nscan + 1
    /\ LET p == queue_push(sq, scan)
           w == waker_wake(wslot, wreg, task_queue)
       IN IF ~sq_init
          THEN /\ klast' = [Step("add", 0) EXCEPT !.warned = TRUE]
               /\ UNCHANGED <<sq, accepted, wslot, wpending, task_queue,
                              kpanic>>
          ELSE IF ~p.ok
          THEN /\ klast' = [Step("add", 0) EXCEPT !.warned = TRUE,
                               !.signals = 1, !.callbacks = w.callbacks]
               /\ wslot' = w.slot
               /\ wpending' = (wpending \/ w.pending)
               /\ task_queue' = w.q
               /\ UNCHANGED <<sq, accepted, kpanic>>
          ELSE /\ sq' = p.q
               /\ accepted' = Append(accepted, scan)
               /\ wslot' = w.slot
               /\ wpending' = (wpending \/ w.pending)
               /\ task_queue' = w.q
               /\ kpanic' = IF w.panic THEN "wake_full" ELSE "none"
               /\ klast' = [Step("add", IF w.callbacks = 1 THEN wslot ELSE 0)
                               EXCEPT !.pushed = TRUE, !.signals = 1,
                                      !.callbacks = w.callbacks]
    /\ tasks' = IF klast'.callbacks = 1 THEN Woken(tasks, klast'.id) ELSE tasks
    /\ UNCHANGED <<waker_cache, wgen, held, epc, cur, kpc, kbyte,
                   sq_init, wreg, delivered>>
    /\ istack' = IF InHandler("kbd", "body") THEN AtTop("eoi") ELSE istack
    /\ UNCHANGED <<vars, iflag, alock, bvars, xvars>>

(***************************************************************************)
(* keyboard.rs:57-67, called by the keyboard interrupt handler             *)
(* (interrupts/mod.rs:94-117).  The handler runs to completion before the  *)
(* interrupted code continues.  WAKER.wake() takes the registered waker    *)
(* out of the slot and invokes it; while register() is under way it only   *)
(* leaves a mark for register() to act on.                                 *)
(***************************************************************************)
add_scancode(scan) ==
    /\ kpanic = "none"
    /\ nscan' = nscan + 1
    /\ LET p == queue_push(sq, scan)
           w == waker_wake(wslot, wreg, task_queue)
       IN IF ~sq_init
          THEN /\ klast' = [Step("add", 0) EXCEPT !.warned = TRUE]
               /\ UNCHANGED <<sq, accepted, wslot, wpending, task_queue,
                              kpanic>>
          ELSE IF ~p.ok
          THEN /\ klast' = [Step("add", 0) EXCEPT !.warned = TRUE]
               /\ UNCHANGED <<sq, accepted, wslot, wpending, task_queue,
                              kpanic>>
          ELSE /\ sq' = p.q
               /\ accepted' = Append(accepted, scan)
               /\ wslot' = w.slot
               /\ wpending' = (wpending \/ w.pending)
               /\ task_queue' = w.q
               /\ kpanic' = IF w.panic THEN "wake_full" ELSE "none"
               /\ klast' = [Step("add", IF w.callbacks = 1 THEN wslot ELSE 0)
                               EXCEPT !.pushed = TRUE, !.signals = 1,
                                      !.callbacks = w.callbacks]
    /\ tasks' = IF klast'.callbacks = 1 THEN Woken(tasks, klast'.id) ELSE tasks
    /\ UNCHANGED <<waker_cache, wgen, held, epc, cur, kpc, kbyte,
                   sq_init, wreg, delivered>>
    /\ istack' = IF InHandler("kbd", "body") THEN AtTop("eoi") ELSE istack
    /\ UNCHANGED <<vars, iflag, alock, bvars, xvars>>

\* the byte the keyboard controller delivers with the n-th interrupt
ScanOf(n) == (n + 1) % 256

(***************************************************************************)
(* Bounds of the bridge exploration.                                       *)
(***************************************************************************)
\* keyboard interrupts explored: enough to fill the queue and overflow it
\* after the consumer has read
MaxScan == 131
\* bytes the consumer reads
MaxPops == 2
\* keyboard interrupts explored before the queue exists
MaxEarly == 1

\* the bridge with its one consumer task under the executor
NextKbd ==
    \/ (DOMAIN tasks = {} /\ spawn(1, "kbd"))
    \/ run_begin
    \/ pop_ready
    \/ stream_new
    \/ ((sq = <<>> \/ Len(delivered) < MaxPops) /\ poll_next_pop1)
    \/ register_begin
    \/ register_end
    \/ ((sq = <<>> \/ Len(delivered) < MaxPops) /\ poll_next_pop2)
    \/ poll_next_take
    \/ (nscan < MaxScan /\ (sq_init \/ nscan < MaxEarly)
          /\ add_scancode(ScanOf(nscan)))

SpecKbd == Init /\ [][NextKbd]_allvars

\* keyboard interrupts explored together with the allocator
MaxIrqScan == 1
\* live allocations explored together with the interrupts
MaxIrqLive == 2
\* handlers entered and not yet left
MaxNest == 2

(***************************************************************************)
(* Normal context in the allocator, step by step (the lock, then the call  *)
(* that ends by dropping the guard), with the timer and the keyboard       *)
(* interrupting wherever the processor lets them.                          *)
(***************************************************************************)
NextIrq ==
    \/ lock
    \/ (istack = <<>> /\ alock /\ init(SmallHeap))
    \/ (istack = <<>> /\ alock /\ Len(live) < MaxIrqLive
          /\ \E l \in Layouts : alloc(l[1], l[2]))
    \/ (istack = <<>> /\ alock /\ \E i \in 1..MaxLive : dealloc(i))
    \/ \E k \in Irqs :
          /\ Len(istack) < MaxNest
          /\ k = "kbd" => nscan < MaxIrqScan
          /\ irq_enter(k)
    \/ timer_interrupt_handler
    \/ (InHandler("kbd", "body") /\ add_scancode(ScanOf(nscan)))
    \/ pics_lock
    \/ notify_end_of_interrupt
    \/ pics_unlock
    \/ irq_exit

SpecIrq == Init /\ [][NextIrq]_allvars

(***************************************************************************)
(* The identifier of a new task.  Identifiers are handed out in increasing *)
(* order and never twice; what matters to the executor is that the new one *)
(* differs from every identifier a task, a ready entry or a waker carries. *)
(***************************************************************************)
Ids(q) == {q[i] : i \in 1..Len(q)}
MaxOf(S) == IF S = {} THEN 0 ELSE CHOOSE m \in S : \A x \in S : x <= m
FreshId == 1 + MaxOf(DOMAIN tasks \cup Ids(task_queue) \cup held \cup {wslot})

(***************************************************************************)
(* Bounds of the executor exploration.                                     *)
(***************************************************************************)
\* live identifiers in the exploration of the drain loop
MaxTasks == 2
\* ready entries up to which a task or a stored waker adds another one
MaxReady == 3
\* wakers created before the last task is spawned
MaxWakers == 3
\* identifiers that may be futures of any behaviour when the ready queue is
\* filled to its capacity
MaxGeneric == 1
\* identifiers that are spawned a second time
MaxDup == 2
\* longest ready queue that is drained on the way to a full one
MaxDrain == 2

\* the drain loop over tasks of every behaviour
NextExec ==
    \/ \E kind \in {"ready", "generic"} :
          FreshId <= MaxTasks /\ wgen < MaxWakers /\ spawn(FreshId, kind)
    \/ run_begin
    \/ pop_ready
    \/ poll_ready
    \/ \E o \in Outcomes :
          (o.wake => Len(task_queue) < MaxReady) /\ poll_generic(o)
    \/ \E id \in held : Len(task_queue) < MaxReady /\ ext_wake(id)

SpecExec == Init /\ [][NextExec]_allvars

\* spawn after spawn up to the capacity of the ready queue and beyond
NextSpawn ==
    \/ (Cardinality(DOMAIN tasks) <= ReadyCap /\ spawn(FreshId, "ready"))
    \/ (FreshId <= MaxGeneric /\ spawn(FreshId, "generic"))
    \/ \E id \in DOMAIN tasks : id <= MaxDup /\ spawn(id, "ready")
    \/ (Len(task_queue) <= MaxDrain /\ wgen < MaxWakers /\ run_begin)
    \/ pop_ready
    \/ poll_ready
    \/ \E o \in Outcomes :
          ~o.hold /\ (o.wake => Len(task_queue) < MaxDrain) /\ poll_generic(o)

SpecSpawn == Init /\ [][NextSpawn]_allvars

\* keyboard interrupts explored together with tasks of every behaviour
MaxMixScan == 1

\* the executor over finishing, arbitrary and keyboard tasks, with the
\* keyboard interrupt arriving between any two steps
NextMix ==
    \/ \E kind \in Kinds :
          /\ FreshId <= MaxTasks /\ wgen < MaxWakers
          /\ kind = "kbd" => \A id \in DOMAIN tasks : tasks[id].kind # "kbd"
          /\ kind = "generic" => FreshId <= MaxGeneric
          /\ spawn(FreshId, kind)
    \/ run_begin
    \/ pop_ready
    \/ poll_ready
    \/ \E o \in Outcomes :
          (o.wake => Len(task_queue) < MaxReady) /\ poll_generic(o)
    \/ \E id \in held : Len(task_queue) < MaxReady /\ ext_wake(id)
    \/ stream_new
    \/ poll_next_pop1
    \/ register_begin
    \/ register_end
    \/ poll_next_pop2
    \/ poll_next_take
    \/ (nscan < MaxMixScan /\ add_scancode(ScanOf(nscan)))

SpecMix == Init /\ [][NextMix]_allvars

\* tasks that run print_keypresses, each of which calls
\* ScancodeStream::new() at its first poll
MaxStreams == 2
\* keyboard interrupts explored with more than one such task
MaxStreamScan == 3

\* the bridge with several consumer tasks, spawned before and between the
\* drains of the executor
NextStream ==
    \/ (Cardinality(DOMAIN tasks) < MaxStreams /\ spawn(FreshId, "kbd"))
    \/ run_begin
    \/ pop_ready
    \/ stream_new
    \/ poll_next_pop1
    \/ register_begin
    \/ register_end
    \/ poll_next_pop2
    \/ poll_next_take
    \/ (nscan < MaxStreamScan /\ (sq_init \/ nscan < MaxEarly)
          /\ add_scancode(ScanOf(nscan)))

SpecStream == Init /\ [][NextStream]_allvars

\* keyboard interrupts explored with a consumer that keeps up with them:
\* one more than the ready queue has room for
MaxFullScan == 101

\* one consumer task under the executor, with a keyboard that sends its
\* next byte only after the consumer has taken the one before
NextFull ==
    \/ (DOMAIN tasks = {} /\ spawn(1, "kbd"))
    \/ run_begin
    \/ pop_ready
    \/ stream_new
    \/ poll_next_pop1
    \/ register_begin
    \/ register_end
    \/ poll_next_pop2
    \/ poll_next_take
    \/ (nscan < MaxFullScan /\ sq_init /\ sq = <<>>
          /\ add_scancode(ScanOf(nscan)))

SpecFull == Init /\ [][NextFull]_allvars

\* keyboard interrupts explored with the handlers followed step by step:
\* one before the queue exists, 128 that fill it and one that is refused
MaxEoiScan == 130

(***************************************************************************)
(* The timer and the keyboard handler, step by step, over the bridge: the  *)
(* consumer creates the queue and waits, normal context runs only while no *)
(* handler is active.                                                      *)
(***************************************************************************)
NextEoi ==
    \/ (istack = <<>> /\ DOMAIN tasks = {} /\ spawn(1, "kbd"))
    \/ (istack = <<>> /\ run_begin)
    \/ (istack = <<>> /\ pop_ready)
    \/ (istack = <<>> /\ stream_new)
    \/ (istack = <<>> /\ sq = <<>> /\ poll_next_pop1)
    \/ (istack = <<>> /\ register_begin)
    \/ (istack = <<>> /\ register_end)
    \/ (istack = <<>> /\ sq = <<>> /\ poll_next_pop2)
    \/ \E k \in Irqs :
          /\ Len(istack) < MaxNest
          /\ k = "kbd" => nscan < MaxEoiScan /\ (sq_init \/ nscan < MaxEarly)
          /\ irq_enter(k)
    \/ timer_interrupt_handler
    \/ (InHandler("kbd", "body") /\ add_scancode(ScanOf(nscan)))
    \/ pics_lock
    \/ notify_end_of_interrupt
    \/ pics_unlock
    \/ irq_exit

SpecEoi == Init /\ [][NextEoi]_allvars

\* keyboard interrupts explored for the delivery of the accepted bytes
MaxLiveScan == 2

\* mod.rs:94-117, idt.rs:50-53  a keyboard interrupt is taken: the only step
\* that is not the processor executing the kernel's next instruction
kbd_arrive ==
    /\ Len(istack) < MaxNest
    /\ nscan < MaxLiveScan
    /\ (sq_init \/ nscan < MaxEarly)
    /\ irq_enter("kbd")

\* exec.rs:29-55, keyboard.rs:32-49  normal context: the executor loop and
\* the keyboard task, running while no handler is active
ExecLive ==
    /\ istack = <<>>
    /\ \/ (DOMAIN tasks = {} /\ spawn(1, "kbd"))
       \/ run_begin
       \/ pop_ready
       \/ stream_new
       \/ poll_next_pop1
       \/ register_begin
       \/ register_end
       \/ poll_next_pop2
       \/ poll_next_take

\* mod.rs:94-117  the keyboard handler, step by step
HandlerLive ==
    \/ (InHandler("kbd", "body") /\ add_scancode(ScanOf(nscan)))
    \/ pics_lock
    \/ notify_end_of_interrupt
    \/ pics_unlock
    \/ irq_exit

NextLive ==
    \/ kbd_arrive
    \/ (istack = <<>> /\ DOMAIN tasks = {} /\ spawn(1, "kbd"))
    \/ (istack = <<>> /\ run_begin)
    \/ (istack = <<>> /\ pop_ready)
    \/ (istack = <<>> /\ stream_new)
    \/ (istack = <<>> /\ poll_next_pop1)
    \/ (istack = <<>> /\ register_begin)
    \/ (istack = <<>> /\ register_end)
    \/ (istack = <<>> /\ poll_next_pop2)
    \/ (istack = <<>> /\ poll_next_take)
    \/ (InHandler("kbd", "body") /\ add_scancode(ScanOf(nscan)))
    \/ pics_lock
    \/ notify_end_of_interrupt
    \/ pics_unlock
    \/ irq_exit

(***************************************************************************)
(* The executor loop under fair scheduling: the processor always executes  *)
(* the next instruction of whatever is running, the executor and the task  *)
(* in normal context or the innermost handler; the arrival of a keyboard   *)
(* interrupt is never required.                                            *)
(***************************************************************************)
SpecLive ==
    /\ Init
    /\ [][NextLive]_allvars
    /\ WF_allvars(ExecLive \/ HandlerLive)

(***************************************************************************)
(* _print of vga_buf.rs:173-182 (WRITER, channel "vga") and of             *)
(* serial.rs:32-43 (SERIAL1, channel "serial"), both                       *)
(* without_interrupts(|| { LOCK.lock().write_fmt(args) }).  prt is the     *)
(* stack of the calls in progress: the channel, the interrupt level of the *)
(* caller (0 for normal context, else the depth of its handler), the       *)
(* interrupt flag read at the start and the position in the call.          *)
(***************************************************************************)
Channels == {"vga", "serial"}
\* the spin::Mutex of channel ch is held by a call in progress
WriterHeld(ch) == \E i \in 1..Len(prt) : prt[i].ch = ch /\ prt[i].pc = "held"
\* the running code is inside the call of _print on top of prt
InPrint(pc) ==
    /\ prt # <<>>
    /\ prt[Len(prt)].lvl = Len(istack)
    /\ prt[Len(prt)].pc = pc
\* the running code is not inside a call of _print
NotPrinting == IF prt = <<>> THEN TRUE ELSE prt[Len(prt)].lvl < Len(istack)
\* the call on top of prt moves on to pc
PrintAt(pc) == [prt EXCEPT ![Len(prt)].pc = pc]

\* vga_buf.rs:179, serial.rs:37  without_interrupts reads the interrupt
\* flag; called by normal context (println!, serial_println!) or by the body
\* of a handler that has not printed yet (mod.rs:85, keyboard.rs:60 and 65,
\* which print to the display)
without_interrupts_begin(ch) ==
    /\ NotPrinting
    /\ \/ istack = <<>>
       \/ /\ istack # <<>>
          /\ istack[Len(istack)].irq \in Irqs
          /\ istack[Len(istack)].pc = "body"
          /\ ~istack[Len(istack)].logged
          /\ ch = "vga"
    /\ prt' = Append(prt, [ch |-> ch, lvl |-> Len(istack), saved |-> iflag,
                           pc |-> "cli"])
    /\ UNCHANGED <<vars, kvars, ivars, bvars, hvars, tvars>>

\* Faulty variant: the closure runs with the interrupt flag as it was.
without_interrupts_disable_skip ==
    /\ InPrint("cli")
    /\ prt' = PrintAt("lock")
    /\ UNCHANGED <<vars, kvars, ivars, bvars, hvars, tvars>>

\* vga_buf.rs:179, serial.rs:37  without_interrupts disables the interrupts
\* before it calls the closure
without_interrupts_disable ==
    /\ InPrint("cli")
    /\ iflag' = FALSE
    /\ prt' = PrintAt("lock")
    /\ UNCHANGED <<istack, alock>>
    /\ UNCHANGED <<vars, kvars, bvars, hvars, tvars>>

\* vga_buf.rs:180, serial.rs:38-39  LOCK.lock(): spins while the guard is
\* held by another call
writer_lock ==
    /\ InPrint("lock")
    /\ ~WriterHeld(prt[Len(prt)].ch)
    /\ prt' = PrintAt("held")
    /\ UNCHANGED <<vars, kvars, ivars, bvars, hvars, tvars>>

\* vga_buf.rs:180, serial.rs:40-41  write_fmt(args); the guard is a
\* temporary and is dropped when the statement ends
writer_unlock ==
    /\ InPrint("held")
    /\ prt' = PrintAt("sti")
    /\ UNCHANGED <<vars, kvars, ivars, bvars, hvars, tvars>>

\* vga_buf.rs:179-181, serial.rs:37-42  the end of without_interrupts: the
\* interrupts are enabled again if they were enabled at the start, and
\* _print returns; a handler has then printed
without_interrupts_end ==
    /\ InPrint("sti")
    /\ iflag' = IF prt[Len(prt)].saved THEN TRUE ELSE iflag
    /\ prt' = SubSeq(prt, 1, Len(prt) - 1)
    /\ istack' = IF istack = <<>> THEN istack
                 ELSE [istack EXCEPT ![Len(istack)].logged = TRUE]
    /\ UNCHANGED alock
    /\ UNCHANGED <<vars, kvars, bvars, hvars, tvars>>

\* lib.rs:124  x86_64::instructions::interrupts::enable() at the end of
\* init()
interrupts_enable ==
    /\ istack = <<>>
    /\ prt = <<>>
    /\ ~iflag
    /\ iflag' = TRUE
    /\ UNCHANGED <<istack, alock>>
    /\ UNCHANGED <<vars, kvars, bvars, xvars>>

\* keyboard interrupts explored together with the prints
MaxPrintScan == 2

\* the kernel before init() has enabled the interrupts
PrintInit ==
    /\ free = <<>>
    /\ live = <<>>
    /\ heap_size = 0
    /\ last = NoCall
    /\ panicked = FALSE
    /\ KInit
    /\ iflag = FALSE
    /\ istack = <<>>
    /\ alock = FALSE
    /\ BootOff
    /\ XOff

(***************************************************************************)
(* Prints of normal context and of the timer and the keyboard handler,     *)
(* step by step.  No task has created the scancode queue, so add_scancode  *)
(* prints its warning for every byte; a handler body ends after its print. *)
(***************************************************************************)
NextPrint ==
    \/ interrupts_enable
    \/ \E ch \in Channels : without_interrupts_begin(ch)
    \/ without_interrupts_disable
    \/ writer_lock
    \/ writer_unlock
    \/ without_interrupts_end
    \/ \E k \in Irqs :
          /\ Len(istack) < MaxNest
          /\ k = "kbd" => nscan < MaxPrintScan
          /\ irq_enter(k)
    \/ (istack # <<>> /\ istack[Len(istack)].logged
          /\ timer_interrupt_handler)
    \/ (InHandler("kbd", "body") /\ istack[Len(istack)].logged
          /\ add_scancode(ScanOf(nscan)))
    \/ pics_lock
    \/ notify_end_of_interrupt
    \/ pics_unlock
    \/ irq_exit

SpecPrint == PrintInit /\ [][NextPrint]_allvars

\* live allocations explored together with the exceptions
MaxExcLive == 1
\* keyboard interrupts explored together with the exceptions
MaxExcScan == 1

(***************************************************************************)
(* Exceptions raised in normal context (here: the allocator calls) and in  *)
(* the interrupt handlers, with the handlers followed step by step.        *)
(***************************************************************************)
NextExc ==
    \/ lock
    \/ (istack = <<>> /\ alock /\ init(SmallHeap))
    \/ (istack = <<>> /\ alock /\ Len(live) < MaxExcLive
          /\ alloc(16, 8))
    \/ (istack = <<>> /\ alock /\ dealloc(1))
    \/ \E k \in Irqs :
          /\ Len(istack) < MaxNest
          /\ k = "kbd" => nscan < MaxExcScan
          /\ irq_enter(k)
    \/ \E e \in Exceptions : Len(istack) < MaxNest /\ exc_enter(e, 0)
    \/ exception_handler
    \/ timer_interrupt_handler
    \/ (InHandler("kbd", "body") /\ add_scancode(ScanOf(nscan)))
    \/ pics_lock
    \/ notify_end_of_interrupt
    \/ pics_unlock
    \/ irq_exit

SpecExc == Init /\ [][NextExc]_allvars

\* the error codes of a page fault: five flag bits (mod.rs:301-309)
ErrCodes == 0..31

(***************************************************************************)
(* Page faults with every error code, in normal context and in the timer   *)
(* handler; the timer goes on interrupting the halted kernel.              *)
(***************************************************************************)
NextFault ==
    \/ \E code \in ErrCodes :
          Len(istack) < MaxNest /\ exc_enter("pg_fault", code)
    \/ exception_handler
    \/ (Len(istack) < MaxNest /\ irq_enter("timer"))
    \/ timer_interrupt_handler
    \/ pics_lock
    \/ notify_end_of_interrupt
    \/ pics_unlock
    \/ irq_exit

SpecFault == Init /\ [][NextFault]_allvars

(***************************************************************************)
(* The trampolines of interrupts/mod.rs, instruction by instruction.  The  *)
(* stack is the sequence of the 8-byte words from the hardware frame       *)
(* upwards, the top of the stack last; registers hold 64-bit values.       *)
(***************************************************************************)
Push(r) == [op |-> "push", r |-> r]
Pop(r) == [op |-> "pop", r |-> r]
\* mod.rs:152-160 and 189-197  push rax .. push r11
SaveRegs == [i \in 1..Len(SavedRegs) |-> Push(SavedRegs[i])]
\* mod.rs:164-172 and 201-209  pop r11 .. pop rax
RestoreRegs ==
    [i \in 1..Len(SavedRegs) |-> Pop(SavedRegs[Len(SavedRegs) + 1 - i])]
\* mod.rs:161-163 and 198-200  the frame pointer as first argument, the call
CallHandler ==
    <<[op |-> "mov_rdi_rsp", r |-> "rdi"], [op |-> "add_rdi", r |-> "rdi"],
      [op |-> "call", r |-> ""]>>
\* mod.rs:146-178  the body of handler!
handler_asm ==
    SaveRegs \o CallHandler \o RestoreRegs \o <<[op |-> "iretq", r |-> ""]>>
\* mod.rs:182-215  the body of handler_with_errcode!: pop rsi comes first
handler_with_errcode_asm == <<Pop("rsi")>> \o handler_asm
TrampKinds == {"handler", "handler_with_errcode"}
Code(kind) ==
    IF kind = "handler" THEN handler_asm ELSE handler_with_errcode_asm

\* the address the stack grows down from, and the stack pointer
StackTop == 65536
Rsp == StackTop - (8 * Len(stk))
\* mod.rs:262-268  ExceptionStackFrame as the processor pushes it: ss, rsp,
\* rflags, cs and rip, the instruction pointer last
HwFrame == <<16, StackTop, 514, 8, 4660>>
\* register files explored at the entry of a trampoline
MaxRegBase == 2
RegFile(base) ==
    [r \in Regs |->
        (16 * base) + (CHOOSE i \in 1..Len(SavedRegs) : SavedRegs[i] = r)]
\* values the typed handler leaves in the caller-saved registers
MaxClobber == 2
\* the next instruction of the trampoline
Instr == Code(tkind)[tpc]

\* the processor enters the trampoline of an IDT entry: it has pushed the
\* frame, and for the vectors 8 and 14 (mod.rs:226-227) the error code
tramp_enter(kind, base, err_code) ==
    /\ tkind = "none"
    /\ tkind' = kind
    /\ tpc' = 1
    /\ regs' = RegFile(base)
    /\ stk' = IF kind = "handler_with_errcode"
              THEN Append(HwFrame, err_code) ELSE HwFrame
    /\ tentry' = [regs |-> regs', stk |-> stk']
    /\ UNCHANGED <<vars, kvars, ivars, bvars, hvars, pvars>>

\* push, pop, mov rdi, rsp and add rdi, 9*8 (the stack lies far below
\* 2^64, the sum does not wrap)
tramp_step ==
    /\ tkind \in TrampKinds
    /\ tpc \in 1..Len(Code(tkind))
    /\ Instr.op \in {"push", "pop", "mov_rdi_rsp", "add_rdi"}
    /\ tpc' = tpc + 1
    /\ CASE Instr.op = "push" ->
              /\ stk' = Append(stk, regs[Instr.r])
              /\ UNCHANGED regs
         [] Instr.op = "pop" ->
              /\ regs' = [regs EXCEPT ![Instr.r] = stk[Len(stk)]]
              /\ stk' = SubSeq(stk, 1, Len(stk) - 1)
         [] Instr.op = "mov_rdi_rsp" ->
              /\ regs' = [regs EXCEPT !["rdi"] = Rsp]
              /\ UNCHANGED stk
         [] Instr.op = "add_rdi" ->
              /\ regs' = [regs EXCEPT !["rdi"] = @ + (9 * 8)]
              /\ UNCHANGED stk
    /\ UNCHANGED <<tkind, tentry>>
    /\ UNCHANGED <<vars, kvars, ivars, bvars, hvars, pvars>>

\* mod.rs:163 and 200  call: the typed handler, an extern "C" function,
\* either never returns or returns with the stack as it found it and with
\* values of its own in the registers its calling convention lets it use
tramp_call(returns, c) ==
    /\ tkind \in TrampKinds
    /\ tpc \in 1..Len(Code(tkind))
    /\ Instr.op = "call"
    /\ IF returns
       THEN /\ tpc' = tpc + 1
            /\ regs' = [r \in Regs |-> c]
       ELSE /\ tpc' = 0
            /\ UNCHANGED regs
    /\ UNCHANGED <<tkind, stk, tentry>>
    /\ UNCHANGED <<vars, kvars, ivars, bvars, hvars, pvars>>

\* mod.rs:173 and 210  iretq pops rip, cs, rflags, rsp and ss and leaves
\* the trampoline
tramp_iretq ==
    /\ tkind \in TrampKinds
    /\ tpc \in 1..Len(Code(tkind))
    /\ Instr.op = "iretq"
    /\ tkind' = "none"
    /\ tpc' = 0
    /\ regs' = NoRegs
    /\ stk' = <<>>
    /\ tentry' = [regs |-> NoRegs, stk |-> <<>>]
    /\ UNCHANGED <<vars, kvars, ivars, bvars, hvars, pvars>>

NextTramp ==
    \/ \E kind \in TrampKinds, base \in 0..MaxRegBase, err_code \in ErrCodes :
          /\ kind = "handler" => err_code = 0
          /\ tramp_enter(kind, base, err_code)
    \/ tramp_step
    \/ \E returns \in BOOLEAN, c \in 1..MaxClobber :
          /\ ~returns => c = 1
          /\ tramp_call(returns, c)
    \/ tramp_iretq

SpecTramp == Init /\ [][NextTramp]_allvars

(***************************************************************************)
(* Boot: descriptor tables, vector table, interrupt controllers.           *)
(***************************************************************************)
\* gdt.rs:6
DOUBLE_FAULT_IST_IDX == 0
\* gdt.rs:49  const STACK_SIZE: usize = 4096 * 5
STACK_SIZE == 4096 * 5
\* lib.rs:44-49  QEMUExitCode as written to the port (exit_code as u32)
QEMUExitCode(name) == IF name = "Success" THEN 16 ELSE 17

\* element i of a Rust array or slice, which counts from 0
At(a, i) == a[i + 1]

\* bit_field: set_bit and set_bits(lo..hi) on an unsigned integer
Pow2(n) == 2 ^ n
set_bit(x, i, b) ==
    x - ((x \div Pow2(i)) % 2) * Pow2(i) + (IF b THEN Pow2(i) ELSE 0)
set_bits(x, lo, hi, v) ==
    x - ((x \div Pow2(lo)) % Pow2(hi - lo)) * Pow2(lo) + v * Pow2(lo)
get_bits(x, lo, hi) == (x \div Pow2(lo)) % Pow2(hi - lo)

\* idt.rs:30-34  EntryOptions::minimal()
minimal == set_bits(0, 9, 12, 7)
\* idt.rs:45-53  set_present, disable_interrupts
set_present(o, present) == set_bit(o, 15, present)
disable_interrupts(o, disable) == set_bit(o, 8, disable)
\* idt.rs:37-41  EntryOptions::new()
EntryOptions_new == disable_interrupts(set_present(minimal, TRUE), TRUE)

\* Faulty variant: the index is written above the three index bits.
set_stack_idx_shifted(o, idx) == set_bits(o, 3, 6, idx)

\* idt.rs:60-63
set_stack_idx(o, idx) == set_bits(o, 0, 3, idx)

\* what the processor reads in the options of a gate: the present bit and
\* the interrupt-stack-table index, 0 for none, n for slot n - 1 of the TSS
Present(e) == get_bits(e.options, 15, 16) = 1
IstIndex(e) == get_bits(e.options, 0, 3)

\* idt.rs:85-95 and 97-108  Entry::new, Entry::missing
Entry_new(handler) == [handler |-> handler, options |-> EntryOptions_new]
Entry_missing == [handler |-> "none", options |-> minimal]

\* idt.rs:8  pub struct Idt([Entry; 16])
IdtEntries == 16
\* idt.rs:111-113  Idt::new()
Idt_new ==
    [table |-> [i \in 1..IdtEntries |-> Entry_missing], panic |-> FALSE,
     calls |-> <<>>]

\* the third argument of set_handler: None, or Some(options)
None == 0 - 1

(***************************************************************************)
(* idt.rs:116-118 with the third parameter of the calls in mod.rs:220-229: *)
(* self.0[entry] = Entry::new(cs, handler), the options replaced if some   *)
(* are given.  Indexing the array is bounds-checked: an entry beyond it    *)
(* panics.                                                                 *)
(***************************************************************************)
set_handler(t, entry, handler, options) ==
    IF entry >= Len(t.table)
    THEN [t EXCEPT !.panic = TRUE, !.calls = Append(@, entry)]
    ELSE [t EXCEPT
            !.table[entry + 1] =
                IF options = None THEN Entry_new(handler)
                ELSE [Entry_new(handler) EXCEPT !.options = options],
            !.calls = Append(@, entry)]

\* mod.rs:220-229  the calls of set_handler in the initialiser of IDT
IDT_calls ==
    << <<0, "zero_div_handler", None>>,
       <<3, "breakpt_handler", None>>,
       <<6, "invalid_op_handler", None>>,
       <<8, "double_fault_handler",
         set_stack_idx(EntryOptions_new, DOUBLE_FAULT_IST_IDX + 1)>>,
       <<14, "pg_fault_handler", None>>,
       <<Vector("timer"), "timer_interrupt_handler", None>>,
       <<Vector("kbd"), "keyboard_interrupt_handler", None>> >>
\* mod.rs:346-352  the initialiser of TEST_IDT
TEST_IDT_calls == << <<0, "test_zero_div_handler", None>> >>

\* the initialiser runs its calls in order and ends at the first panic
RECURSIVE Build(_, _)
Build(t, calls) ==
    IF calls = <<>> \/ t.panic THEN t
    ELSE Build(set_handler(t, calls[1][1], calls[1][2], calls[1][3]),
               Tail(calls))

\* gdt.rs:41-64  the initialiser of TSS: slot DOUBLE_FAULT_IST_IDX of the
\* interrupt stack table is the end of the static STACK
TssBuild(start) ==
    [i \in 1..7 |-> IF i = DOUBLE_FAULT_IST_IDX + 1
                    THEN start + STACK_SIZE ELSE 0]

Call(op, arg) == [op |-> op, arg |-> arg]
\* gdt.rs:92-103  gdt::init()
gdt_init == <<Call("GDT.load", ""), Call("CS::set_reg", ""),
              Call("load_tss", "")>>

\* Faulty variant: interrupts are enabled first.
lib_init_enable_first ==
    <<Call("enable", "")>> \o gdt_init
        \o <<Call("IDT.load", "IDT"), Call("PICS.initialize", "")>>

\* lib.rs:116-125  init(), with interrupts::init() (mod.rs:339-341)
lib_init ==
    gdt_init \o <<Call("IDT.load", "IDT"), Call("PICS.initialize", ""),
                  Call("enable", "")>>

\* main.rs:67-92  kern_main: init(), the page mapping, a line on the screen
kern_main == lib_init \o <<Call("println", "Hello Kernel!"),
                           Call("hlt_loop", "")>>
\* tests/interrupt_test.rs:15-27  _start and test_zero_division, with
\* init_test() (mod.rs:360-362)
test_start ==
    <<Call("IDT.load", "TEST_IDT"),
      Call("serial_println", "Running 1 tests:"),
      Call("serial_print", "interrupt_test::test_zero_division..."),
      Call("divide_by_zero", ""),
      Call("exit_qemu", "Failure"),
      Call("hlt_loop", "")>>
\* mod.rs:354-358  test_zero_div_handler
test_zero_div_handler ==
    <<Call("serial_println", "[ok]"), Call("exit_qemu", "Success"),
      Call("hlt_loop", "")>>
\* main.rs:19-22 and tests/interrupt_test.rs:8-12  the panic handlers
panic_handler(p) ==
    IF p = "kernel"
    THEN <<Call("println", "panic"), Call("hlt_loop", "")>>
    ELSE <<Call("serial_println", "[panicked but did not interrupt]"),
           Call("exit_qemu", "Failure"), Call("hlt_loop", "")>>

Progs == {"kernel", "interrupt_test"}
Program(p) == IF p = "kernel" THEN kern_main ELSE test_start

\* addresses the linker may give the static STACK
MaxStackPages == 3
StackStarts == {1048576 + 4096 * k + 8 * k : k \in 0..MaxStackPages}

\* the processor is started by the boot loader with interrupts disabled
\* and none of the kernel's tables loaded; the lazy statics are not built
BootInit ==
    /\ free = <<>>
    /\ live = <<>>
    /\ heap_size = 0
    /\ last = NoCall
    /\ panicked = FALSE
    /\ KInit
    /\ iflag = FALSE
    /\ istack = <<>>
    /\ alock = FALSE
    /\ prog \in Progs
    /\ bcode = Program(prog)
    /\ stack_start \in StackStarts
    /\ tss = <<>>
    /\ loaded = {}
    /\ idt = NoIdt
    /\ pics = FALSE
    /\ serial = <<>>
    /\ exit_port = <<>>
    /\ pending = {}
    /\ XOff

\* Faulty variant: the division raises nothing and the test goes on.
Deliver0_return == Tail(bcode)

\* where the processor goes when the running code divides by zero: to the
\* handler of a present entry 0 of the loaded table, which does not
\* return; with no such entry the fault cannot be delivered and the
\* machine resets
Deliver0 ==
    IF "idt" \in loaded /\ Len(idt.table) > 0 /\ Present(At(idt.table, 0))
          /\ At(idt.table, 0).handler = "test_zero_div_handler"
    THEN test_zero_div_handler
    ELSE <<>>

(***************************************************************************)
(* The next call of the boot program.  What a program does after its last  *)
(* call, hlt_loop(), is a loop that changes nothing.                       *)
(***************************************************************************)
boot_step ==
    /\ bcode # <<>>
    /\ Head(bcode).op # "hlt_loop"
    /\ LET c == Head(bcode)
           rest == Tail(bcode)
           built == Build(Idt_new, IF c.arg = "IDT" THEN IDT_calls
                                   ELSE TEST_IDT_calls)
       IN /\ tss' = IF c.op = "GDT.load" THEN TssBuild(stack_start) ELSE tss
          /\ loaded' =
                CASE c.op = "GDT.load" -> loaded \cup {"gdt"}
                  [] c.op = "CS::set_reg" -> loaded \cup {"cs"}
                  [] c.op = "load_tss" -> loaded \cup {"tss"}
                  [] c.op = "IDT.load" /\ ~built.panic -> loaded \cup {"idt"}
                  [] OTHER -> loaded
          /\ idt' = IF c.op = "IDT.load" THEN built ELSE idt
          /\ pics' = (pics \/ c.op = "PICS.initialize")
          /\ iflag' = (iflag \/ c.op = "enable")
          /\ serial' = IF c.op \in {"serial_println", "serial_print"}
                       THEN Append(serial, c.arg) ELSE serial
          /\ exit_port' = IF c.op = "exit_qemu"
                          THEN Append(exit_port, QEMUExitCode(c.arg))
                          ELSE exit_port
          /\ \/ /\ c.op = "IDT.load" /\ built.panic
                /\ bcode' = panic_handler(prog)
             \/ /\ c.op = "divide_by_zero"
                /\ bcode' = Deliver0
             \/ /\ c.op = "exit_qemu"
                /\ \E off \in BOOLEAN : bcode' = IF off THEN <<>> ELSE rest
             \/ /\ ~(c.op = "IDT.load" /\ built.panic)
                /\ c.op \notin {"divide_by_zero", "exit_qemu"}
                /\ bcode' = rest
    /\ UNCHANGED <<prog, stack_start, pending, istack, alock>>
    /\ UNCHANGED <<vars, kvars, xvars>>

\* the timer or the keyboard raises its line at the controller
irq_raise(k) ==
    /\ bcode # <<>>
    /\ k \notin pending
    /\ pending' = pending \cup {k}
    /\ UNCHANGED <<prog, bcode, stack_start, tss, loaded, idt, pics, serial,
                   exit_port>>
    /\ UNCHANGED <<vars, kvars, ivars, xvars>>

NextBoot ==
    \/ boot_step
    \/ \E k \in Irqs : irq_raise(k)

SpecBoot == BootInit /\ [][NextBoot]_allvars

KTypeOK ==
    /\ Len(sq) <= QueueCap
    /\ Len(task_queue) <= ReadyCap
    /\ epc \in {"idle", "loop", "poll"}
    /\ kpc \in {"none", "new", "pop1", "reg", "reg2", "pop2", "take"}

(***************************************************************************)
(* Vocabulary of the bridge and executor properties.                       *)
(***************************************************************************)
Count(q, id) == Cardinality({i \in 1..Len(q) : q[i] = id})
IsPrefix(a, b) == Len(a) <= Len(b) /\ \A i \in 1..Len(a) : a[i] = b[i]
\* the keyboard task id has created its stream and is not being polled:
\* its last poll returned Pending
Suspended(id) ==
    /\ id \in DOMAIN tasks
    /\ tasks[id].kind = "kbd"
    /\ tasks[id].started
    /\ cur # id
\* the step just taken is a call of add_scancode
AddStep == klast'.op = "add" /\ nscan' = nscan + 1

(***************************************************************************)
(* C12: at all times the bytes returned as Ready by poll_next are a prefix *)
(* of the bytes whose push succeeded, in push order.                       *)
(***************************************************************************)
C12_Fifo == IsPrefix(delivered, accepted)

\* two bytes were read, more were accepted, and one interrupt's byte never
\* entered the queue
C12_Witness ==
    /\ Len(delivered) = 2
    /\ Len(accepted) > 3
    /\ nscan > Len(accepted)

(***************************************************************************)
(* C13: the queue never holds more than 128 bytes; add_scancode on a full  *)
(* queue drops the new byte, leaves the queued bytes as they are, warns    *)
(* and does not panic; with no consumer the queue holds the bytes accepted *)
(* first, in order.                                                        *)
(***************************************************************************)
C13_Bounded ==
    /\ Len(sq) <= QueueCap
    /\ (delivered = <<>> /\ kpc # "take") => sq = accepted

C13_FullStep ==
    (AddStep /\ sq_init /\ Len(sq) = QueueCap) =>
        /\ sq' = sq
        /\ accepted' = accepted
        /\ klast'.warned /\ ~klast'.pushed
        /\ kpanic' = "none"

C13_Overflow == []C13_Bounded /\ [][C13_FullStep]_allvars

\* the 129th byte has been refused; nothing was read meanwhile
C13_Witness ==
    /\ klast.op = "add" /\ klast.warned
    /\ delivered = <<>> /\ kpc # "take"
    /\ Len(sq) = QueueCap
    /\ sq[QueueCap] = (sq[1] + 127) % 256

(***************************************************************************)
(* C14: one add_scancode call pushes at most one byte and calls            *)
(* WAKER.wake() once if the push succeeded and not at all otherwise (queue *)
(* full or not created); without a call the wake register and the ready    *)
(* queue stay as they are.                                                 *)
(***************************************************************************)
C14_Step ==
    AddStep =>
        /\ klast'.pushed = (sq_init /\ Len(sq) < QueueCap)
        /\ sq' = IF klast'.pushed THEN Append(sq, ScanOf(nscan)) ELSE sq
        /\ klast'.signals = IF klast'.pushed THEN 1 ELSE 0
        /\ klast'.signals = 0 =>
              /\ klast'.callbacks = 0
              /\ UNCHANGED <<wslot, wpending, task_queue>>
        /\ klast'.signals = 1 =>
              /\ wreg => (wpending' /\ wslot' = wslot)
              /\ ~wreg => wslot' = 0
        /\ klast'.callbacks <= klast'.signals

C14_OnePushOneWake == [][C14_Step]_allvars

\* a byte was pushed and the one signal reached the registered waker
C14_Witness ==
    /\ klast.op = "add" /\ klast.pushed
    /\ klast.signals = 1 /\ klast.callbacks = 1
    /\ wslot = 0

(***************************************************************************)
(* C15: no missed wake-up: once poll_next has returned Pending, either the *)
(* queue is empty and the waker is still registered, or the wake callback  *)
(* has been invoked since the registration (the task's id is back in the   *)
(* ready queue).                                                           *)
(***************************************************************************)
C15_NoMissedWake ==
    \A id \in DOMAIN tasks :
        Suspended(id) =>
            \/ Count(task_queue, id) > 0
            \/ (wslot = id /\ sq = <<>>)

\* a byte arrived during register(): poll_next found it at the second pop,
\* the wake had been passed on, and the poll after it returned Pending
C15_Witness ==
    /\ Suspended(1)
    /\ klast.op = "pending"
    /\ Len(delivered) = 1
    /\ Count(task_queue, 1) = 1
    /\ wslot = 1
    /\ sq = <<>>

(***************************************************************************)
(* C16: of the scancodes that arrive while the consumer is suspended only  *)
(* the first invokes the wake callback (one more copy of the id in the     *)
(* ready queue), the later ones invoke nothing, and every accepted byte is *)
(* still queued when the task is polled again; the callback is registered  *)
(* exactly as long as no byte has arrived.                                 *)
(***************************************************************************)
C16_Kept ==
    \A id \in DOMAIN tasks :
        Suspended(id) =>
            /\ accepted = delivered \o sq
            /\ (wslot = id) = (sq = <<>>)

C16_Step ==
    \A id \in DOMAIN tasks :
        (Suspended(id) /\ AddStep) =>
            LET first == klast'.pushed /\ wslot = id
            IN /\ klast'.callbacks = IF first THEN 1 ELSE 0
               /\ Count(task_queue', id) - Count(task_queue, id)
                     = IF first THEN 1 ELSE 0
               /\ klast'.pushed => wslot' = 0

C16_Coalesce == []C16_Kept /\ [][C16_Step]_allvars

\* the third byte of a burst: the consumer is still suspended, its id is
\* queued once, and the byte invoked no callback
C16_Witness ==
    /\ Suspended(1)
    /\ klast.op = "add" /\ klast.pushed /\ klast.callbacks = 0
    /\ Len(sq) = 3
    /\ Count(task_queue, 1) = 1
    /\ wslot = 0

(***************************************************************************)
(* C11: the allocator's critical section runs with hardware interrupts     *)
(* disabled: while normal context holds the allocator lock the interrupt   *)
(* flag is clear and no interrupt handler executes.                        *)
(***************************************************************************)
C11_Masked == alock => (~iflag /\ istack = <<>>)

\* the step just taken is a call of spawn
SpawnStep == klast'.op = "spawn"
\* the step just taken popped the head of the ready queue in the drain loop
PopStep == epc = "loop" /\ Len(task_queue') = Len(task_queue) - 1

(***************************************************************************)
(* C17, as stated: every spawn of a task whose id is not in the table adds *)
(* exactly that task, appends one copy of the id at the tail of the ready  *)
(* queue and leaves the other tasks, the other entries and the waker cache *)
(* as they are.                                                            *)
(***************************************************************************)
C17_FrameStep ==
    LET id == klast'.id
    IN /\ DOMAIN tasks' = DOMAIN tasks \cup {id}
       /\ \A i \in DOMAIN tasks : tasks'[i] = tasks[i]
       /\ tasks'[id].waker = 0 /\ ~tasks'[id].started
       /\ task_queue' = Append(task_queue, id)
       /\ waker_cache' = waker_cache
       /\ held' = held

C17_AsStated ==
    [][(SpawnStep /\ klast'.id \notin DOMAIN tasks) => C17_FrameStep]_allvars

(***************************************************************************)
(* C17: a spawn of a task whose id is not in the table, while the ready    *)
(* queue holds fewer than 100 entries, returns normally, adds exactly that *)
(* task, appends one copy of the id at the tail of the ready queue and     *)
(* leaves the other tasks, the other entries and the waker cache as they   *)
(* are.                                                                    *)
(***************************************************************************)
C17_SpawnFrame ==
    [][(SpawnStep /\ klast'.id \notin DOMAIN tasks
          /\ Len(task_queue) < ReadyCap)
        => (C17_FrameStep /\ kpanic' = "none")]_allvars

\* a third task was spawned behind two ready entries while a suspended task
\* had its waker cached
C17_Witness ==
    /\ klast.op = "spawn" /\ kpanic = "none"
    /\ waker_cache # <<>>
    /\ Len(task_queue) = 3
    /\ task_queue[3] = klast.id
    /\ Cardinality(DOMAIN tasks) = 4

(***************************************************************************)
(* C18: spawn panics in exactly two cases, the id is already in the table  *)
(* or the ready queue already holds 100 entries; in every other case it    *)
(* returns with the task in the table and its id queued: an id is never    *)
(* dropped silently.                                                       *)
(***************************************************************************)
C18_Step ==
    SpawnStep =>
        LET id == klast'.id
            dup == id \in DOMAIN tasks
            full == Len(task_queue) >= ReadyCap
        IN /\ kpanic' = IF dup THEN "dup_task"
                        ELSE IF full THEN "queue_full" ELSE "none"
           /\ kpanic' = "none" =>
                 /\ id \in DOMAIN tasks'
                 /\ Count(task_queue', id) = Count(task_queue, id) + 1

C18_SpawnPanics == [][C18_Step]_allvars /\ [](Len(task_queue) <= ReadyCap)

\* the spawn that found 100 ready entries
C18_Witness ==
    /\ klast.op = "spawn"
    /\ kpanic = "queue_full"
    /\ Len(task_queue) = ReadyCap
    /\ klast.id \notin Ids(task_queue)

(***************************************************************************)
(* C19: popping a ready id that has no task polls nothing and creates no   *)
(* wake callback: the task table and the waker cache stay as they are and  *)
(* the drain goes on with the next entry.                                  *)
(***************************************************************************)
C19_Step ==
    (PopStep /\ Head(task_queue) \notin DOMAIN tasks) =>
        /\ tasks' = tasks
        /\ waker_cache' = waker_cache
        /\ wgen' = wgen
        /\ held' = held
        /\ task_queue' = Tail(task_queue)
        /\ epc' = "loop" /\ cur' = cur

C19_StaleId == [][C19_Step]_allvars

\* the id of a finished task was popped while another task, its waker
\* cached, was waiting in the queue behind it
C19_Witness ==
    /\ klast.op = "skip"
    /\ klast.id \notin DOMAIN tasks
    /\ task_queue # <<>>
    /\ Head(task_queue) \in DOMAIN waker_cache

(***************************************************************************)
(* C20: between two iterations of the drain loop the waker cache has       *)
(* entries only for ids in the task table; a task that was never polled    *)
(* has none; the callback created at the first poll of a task is the one   *)
(* every later poll of it is given.                                        *)
(***************************************************************************)
C20_Cache ==
    (kpanic = "none" /\ epc # "poll") =>
        /\ DOMAIN waker_cache \subseteq DOMAIN tasks
        /\ \A id \in DOMAIN tasks :
              IF tasks[id].waker = 0
              THEN id \notin DOMAIN waker_cache
              ELSE id \in DOMAIN waker_cache
                      /\ waker_cache[id] = tasks[id].waker

C20_PollStep ==
    (PopStep /\ Head(task_queue) \in DOMAIN tasks) =>
        LET id == Head(task_queue)
        IN /\ epc' = "poll" /\ cur' = id
           /\ IF tasks[id].waker = 0
              THEN /\ wgen' = wgen + 1
                   /\ tasks'[id].waker = wgen'
              ELSE /\ wgen' = wgen
                   /\ tasks'[id].waker = tasks[id].waker
           /\ waker_cache'[id] = tasks'[id].waker

C20_WakerCache == []C20_Cache /\ [][C20_PollStep]_allvars

\* a task is polled again with the waker of its first poll while another
\* task has not been polled yet
C20_Witness ==
    /\ klast.op = "take" /\ ~klast.created
    /\ epc = "poll"
    /\ \E id \in DOMAIN tasks : id # cur /\ tasks[id].waker = 0

\* identifiers that a ready entry or a waker still carries although their
\* task has been removed
Stale == (Ids(task_queue) \cup held \cup ({wslot} \ {0})) \ DOMAIN tasks

(***************************************************************************)
(* C21: when a poll reports completion the task's id leaves the task table *)
(* and the waker cache in the same step, nothing else leaves either of     *)
(* them, and the task is never polled again, whatever copies of its id are *)
(* still queued and whenever its wake callback fires.                      *)
(***************************************************************************)
C21_DoneStep ==
    /\ \A id \in DOMAIN tasks :
          id \notin DOMAIN tasks' =>
              /\ epc = "poll" /\ cur = id
              /\ id \in DOMAIN waker_cache /\ id \notin DOMAIN waker_cache'
              /\ \A j \in DOMAIN tasks \ {id} :
                    j \in DOMAIN tasks' /\ tasks'[j] = tasks[j]
    /\ \A id \in DOMAIN waker_cache :
          id \notin DOMAIN waker_cache' => id \notin DOMAIN tasks'

C21_NeverAgain == \A id \in Stale : id \notin DOMAIN tasks' /\ cur' # id

C21_Completion == [][C21_DoneStep /\ C21_NeverAgain]_allvars

\* a task has just finished while a copy of its id is queued and a clone of
\* its waker is still stored somewhere; another task remains
C21_Witness ==
    /\ klast.op = "done"
    /\ klast.id \in Ids(task_queue)
    /\ klast.id \in held
    /\ klast.id \notin DOMAIN tasks
    /\ DOMAIN tasks # {}

(***************************************************************************)
(* C22, as stated: a task whose poll returned not-ready is polled again    *)
(* only after its wake callback has been invoked since that poll (at the   *)
(* latest while that poll was running).                                    *)
(***************************************************************************)
C22_AsStated ==
    [][(PopStep /\ Head(task_queue) \in DOMAIN tasks
          /\ tasks[Head(task_queue)].waker # 0)
        => tasks[Head(task_queue)].woken]_allvars

(***************************************************************************)
(* C22: a task whose poll returned not-ready stays in the task table as it *)
(* is; a task is polled only by popping a ready entry, and a ready entry   *)
(* is appended only by spawn or by an invocation of a wake callback, never *)
(* by the executor on its own; with no scancode accepted, a task pending   *)
(* on the bridge has its waker registered and no ready entry.              *)
(***************************************************************************)
C22_Step ==
    /\ (epc = "poll" /\ epc' = "loop" /\ cur \in DOMAIN tasks') =>
          /\ DOMAIN tasks' = DOMAIN tasks
          /\ \A id \in DOMAIN tasks :
                tasks'[id] = [tasks[id] EXCEPT !.woken = tasks'[id].woken]
    /\ (cur' # cur /\ cur' # 0) => (PopStep /\ cur' = Head(task_queue))
    /\ Len(task_queue') > Len(task_queue) =>
          /\ task_queue' = Append(task_queue, klast'.id)
          /\ SpawnStep \/ klast'.callbacks = 1

C22_Quiet ==
    \A id \in DOMAIN tasks :
        (Suspended(id) /\ accepted = <<>>) =>
            Count(task_queue, id) = 0 /\ wslot = id

C22_NoBusyPoll == []C22_Quiet /\ [][C22_Step]_allvars

\* the drain has ended with no scancode seen: the finishing task is gone,
\* the keyboard task is the one entry of the table and waits unqueued
C22_Witness ==
    /\ klast.op = "return" /\ epc = "idle"
    /\ nscan = 0
    /\ task_queue = <<>>
    /\ Cardinality(DOMAIN tasks) = 1
    /\ \E id \in DOMAIN tasks : Suspended(id) /\ wslot = id
    /\ wgen = 2

(***************************************************************************)
(* C23: a task that finishes at its first poll is polled once and removed  *)
(* by the drain that follows its spawn: while it is in the table it has    *)
(* not been polled and its id is queued once (or it is being polled), the  *)
(* drain does not end before it is gone, and its poll invokes no wake      *)
(* callback.                                                               *)
(***************************************************************************)
C23_Queued ==
    \A id \in DOMAIN tasks :
        (tasks[id].kind = "ready" /\ kpanic = "none") =>
            IF cur = id
            THEN Count(task_queue, id) = 0
            ELSE tasks[id].waker = 0 /\ Count(task_queue, id) = 1

C23_Step ==
    /\ (epc = "loop" /\ epc' = "idle") =>
          \A id \in DOMAIN tasks' : tasks'[id].kind # "ready"
    /\ \A id \in DOMAIN tasks :
          (tasks[id].kind = "ready" /\ epc = "poll" /\ cur = id
             /\ epc' # "poll") =>
              /\ id \notin DOMAIN tasks'
              /\ klast'.callbacks = 0
              /\ Count(task_queue', id) = 0
              /\ task_queue' = task_queue

C23_ReadyOnce == []C23_Queued /\ [][C23_Step]_allvars

\* the finishing task was polled right after the keyboard task had gone
\* pending: it is gone and no callback was invoked
C23_Witness ==
    /\ klast.op = "done" /\ klast.callbacks = 0
    /\ klast.id \notin DOMAIN tasks
    /\ klast.id \notin Stale
    /\ \E id \in DOMAIN tasks : Suspended(id)
    /\ epc = "loop"

(***************************************************************************)
(* The allocate/deallocate round trip of tests/heap_test.rs:54-61          *)
(* (many_boxes): one Layout, allocated and dropped in a loop.              *)
(***************************************************************************)
\* the call just made has the Layout of the call before it
SameLayout == last'.size = last.size /\ last'.align = last.align

\* the first allocate of the loop, on the heap as init left it
C30_First ==
    (Boot0 /\ AllocStep) => last'.ptr = HEAP_START

\* an allocate that follows the deallocate of the same Layout takes the
\* head node, which is the block just freed, and takes nothing else
C30_Again ==
    (last.op = "dealloc" /\ ~panicked /\ AllocStep /\ SameLayout)
      => /\ last'.ptr = last.ptr
         /\ last'.ptr # NULL
         /\ <<Node(last'.ptr, Req.size)>> \o free' = free

\* the deallocate of the block just allocated puts that node back in front
C30_Back ==
    (last.op = "alloc" /\ last.ptr # NULL /\ DeallocStep /\ SameLayout
       /\ last'.ptr = last.ptr)
      => free' = <<Node(last.ptr, Req.size)>> \o free

\* C30: allocate followed by deallocate with the same Layout can be repeated
\* without bound: the first allocate on the initialised heap succeeds, every
\* later allocate returns the address just freed (never null) and removes
\* exactly the node the deallocate added, and the deallocate adds it again,
\* so the free list after each deallocate equals the one after the
\* deallocate before it.
C30_RoundTrip == [][C30_First /\ C30_Again /\ C30_Back]_vars

\* the second allocate of a round trip has returned the freed address: the
\* block at HEAP_START is live again above a block allocated after it, and
\* the node the deallocate had added is gone from the list
C30_Witness ==
    /\ last.op = "alloc"
    /\ last.ptr = HEAP_START
    /\ \E i \in 1..Len(live) : live[i].ptr > HEAP_START
    /\ \A i \in 1..Len(free) : free[i].addr # HEAP_START

\* the innermost active handler
Top == istack[Len(istack)]
\* the step just taken is the return of the innermost handler
ReturnStep == istack # <<>> /\ istack' = SubSeq(istack, 1, Len(istack) - 1)
\* the step just taken sent an end-of-interrupt in the innermost handler
EoiStep ==
    /\ istack # <<>> /\ Len(istack') = Len(istack)
    /\ istack'[Len(istack)].eoi # Top.eoi

(***************************************************************************)
(* C27: every invocation of the timer and of the keyboard handler that     *)
(* returns has sent exactly one end-of-interrupt, for its own vector (32   *)
(* resp. 33): none is sent before the body is done, the one is sent after  *)
(* it, and in the keyboard handler it follows the hand-off of the byte to  *)
(* add_scancode, whether the byte was queued, refused by the full queue or *)
(* refused because the queue does not exist.                               *)
(***************************************************************************)
C27_Sent ==
    \A i \in 1..Len(istack) :
        istack[i].irq \in Irqs =>
            istack[i].eoi = IF istack[i].pc \in {"unlock", "iret"}
                            THEN <<Vector(istack[i].irq)>> ELSE <<>>

C27_Step ==
    /\ (ReturnStep /\ Top.irq \in Irqs) => Top.eoi = <<Vector(Top.irq)>>
    /\ EoiStep =>
          /\ istack' = [istack EXCEPT
                          ![Len(istack)].pc = "unlock",
                          ![Len(istack)].eoi = <<Vector(Top.irq)>>]
          /\ Top.irq = "kbd" => klast.op = "add"
    /\ (InHandler("kbd", "body") /\ istack' # istack) =>
          (AddStep \/ Len(istack') > Len(istack))

C27_OneEoi == []C27_Sent /\ [][C27_Step]_allvars

\* the keyboard handler is about to return after the full queue refused
\* its byte, above a timer handler it had interrupted; another keyboard
\* interrupt had found no queue
C27_Witness ==
    /\ Len(istack) = 2
    /\ istack[1].irq = "timer"
    /\ InHandler("kbd", "iret")
    /\ Top.eoi = <<33>>
    /\ klast.op = "add" /\ klast.warned
    /\ Len(sq) = QueueCap
    /\ nscan = QueueCap + 2

(***************************************************************************)
(* C28: an exception handler returns to the interrupted code if and only   *)
(* if it is the breakpoint handler, and then the interrupted code finds    *)
(* its state and its flags as they were; the handlers of divide-by-zero,   *)
(* invalid opcode, page fault and double fault log and then halt for ever: *)
(* their frame and everything below it stays, and normal context takes no  *)
(* further step.                                                           *)
(***************************************************************************)
C28_Frames ==
    \A i \in 1..Len(istack) :
        istack[i].irq \in Exceptions =>
            /\ istack[i].pc \in {"body", "iret", "halt"}
            /\ istack[i].logged = (istack[i].pc # "body")
            /\ (istack[i].pc = "iret") => (istack[i].irq = "breakpt")
            /\ (istack[i].pc = "halt") => (istack[i].irq # "breakpt")

C28_Step ==
    /\ (ReturnStep /\ Top.irq \in Exceptions) =>
          /\ Top.irq = "breakpt" /\ Top.logged
          /\ iflag' = Top.rflags
          /\ UNCHANGED <<vars, kvars, alock, bvars>>
    /\ \A i \in 1..Len(istack) :
          /\ (i <= Len(istack') /\ istack[i].irq \in Exceptions) =>
                /\ istack'[i].irq = istack[i].irq
                /\ istack'[i].rflags = istack[i].rflags
          /\ istack[i].pc = "halt" =>
                /\ Len(istack') >= i
                /\ \A j \in 1..i : istack'[j] = istack[j]
                /\ UNCHANGED <<vars, alock, bvars>>

C28_OnlyBreakpointReturns == []C28_Frames /\ [][C28_Step]_allvars

\* the breakpoint handler has logged and is about to return; the page
\* fault raised on its way halts above it, and the allocator call that
\* was interrupted first will not go on
C28_Witness ==
    /\ Len(istack) = 2
    /\ istack[1].irq = "breakpt" /\ istack[1].pc = "iret"
    /\ istack[2].irq = "pg_fault" /\ istack[2].pc = "halt"
    /\ istack[2].logged
    /\ alock

\* the vectors whose entry of the table is present
PresentVectors ==
    {v \in 0..(Len(idt.table) - 1) : Present(At(idt.table, v))}
\* the initialiser of the vector table has run (to its end or to a panic)
IdtBuilt == idt # NoIdt

C25_Built ==
    (prog = "kernel" /\ IdtBuilt) =>
        /\ ~idt.panic
        /\ Len(idt.table) >= 48
        /\ PresentVectors = {0, 3, 6, 8, 14, 32, 33}
        /\ \A i, j \in 1..Len(idt.calls) :
              idt.calls[i] = idt.calls[j] => i = j

C25_Frozen == "idt" \in loaded => idt' = idt

C25_VectorTable == []C25_Built /\ [][C25_Frozen]_allvars

C29_State ==
    prog = "interrupt_test" =>
        /\ exit_port \in {<<>>, <<16>>}
        /\ exit_port = <<16>> => serial[Len(serial)] = "[ok]"
        /\ \A i \in 1..Len(bcode) :
              bcode[i] = Call("exit_qemu", "Failure") =>
                  \E j \in 1..(i - 1) : bcode[j].op = "divide_by_zero"

C29_Step ==
    (prog = "interrupt_test" /\ bcode # <<>>
       /\ Head(bcode).op = "divide_by_zero" /\ bcode' # bcode) =>
        /\ "idt" \in loaded /\ 0 \in PresentVectors
        /\ bcode' = test_zero_div_handler

C29_DivisionTest == []C29_State /\ [][C29_Step]_allvars

\* the handler has written the marker and 0x10 and goes on to hlt_loop();
\* a timer tick was raised meanwhile
C29_Witness ==
    /\ prog = "interrupt_test"
    /\ exit_port = <<16>>
    /\ serial[Len(serial)] = "[ok]"
    /\ Len(serial) = 3
    /\ bcode = <<Call("hlt_loop", "")>>
    /\ "timer" \in pending
(***************************************************************************)
(* C36.  No heap byte is lost: the sizes of the free nodes and the         *)
(* normalised sizes of the live allocations add up to the heap size, also  *)
(* when the aligned start of an allocation lies above the start of the     *)
(* node it was cut from.                                                   *)
(***************************************************************************)
RECURSIVE SumSize(_)
SumSize(list) == IF list = <<>> THEN 0 ELSE list[1].size + SumSize(Tail(list))
RECURSIVE SumNorm(_)
SumNorm(list) == IF list = <<>> THEN 0 ELSE NormSize(list[1]) + SumNorm(Tail(list))

\* C36: whenever the kernel has not panicked, free bytes plus live bytes
\* equal the size init was given (0 before init).
C36_NoByteLost == ~panicked => SumSize(free) + SumNorm(live) = heap_size

(***************************************************************************)
(* C37.  The free list is finite and acyclic, so the scan of allocate      *)
(* ends.  The list lives in the freed memory itself: the header at an      *)
(* address is the one written there last, i.e. the one of the entry        *)
(* nearest to the head, and its next field leads to the entry after that   *)
(* one.                                                                    *)
(***************************************************************************)
FirstAt(list, a) == MinOf({k \in 1..Len(list) : list[k].addr = a})
NextOf(list, a) ==
    LET k == FirstAt(list, a)
    IN IF k = Len(list) THEN NULL ELSE list[k + 1].addr
HeadNext(list) == IF list = <<>> THEN NULL ELSE list[1].addr
\* the nodes met from address a on by following next, n of them at most
RECURSIVE Walk(_, _, _)
Walk(list, a, n) ==
    IF a = NULL \/ n = 0 THEN <<>>
    ELSE <<a>> \o Walk(list, NextOf(list, a), n - 1)
\* following next from the head ends at None after every node was met
\* once, and no two headers share a byte
Acyclic(list) ==
    LET w == Walk(list, HeadNext(list), Len(list) + 1)
    IN /\ Len(w) = Len(list)
       /\ \A i, j \in 1..Len(w) : i # j => w[i] # w[j]
       /\ \A i, j \in 1..Len(list) :
             i # j => Disjoint(list[i].addr, list[i].addr + ListNodeSize,
                               list[j].addr, list[j].addr + ListNodeSize)
\* the nodes find_region looks at before it returns
ScanLen(list, size, align) ==
    LET f == find_region(list, size, align)
    IN IF f.found THEN f.idx ELSE Len(list)

C37_List ==
    /\ Acyclic(free)
    /\ Len(free) * ListNodeSize <= heap_size

C37_Step ==
    AllocStep =>
        /\ ScanLen(free, Req.size, Req.align) <= Len(free)
        /\ \/ last'.ptr = NULL
           \/ /\ last'.ptr >= HEAP_START
              /\ last'.ptr + Req.size <= HeapEnd

\* C37: after one init and any allocate / deallocate of live allocations,
\* the free list is finite and no node is reachable from itself, and every
\* allocate ends its scan after at most one look at each node, with a
\* region inside the heap or with null.
C37_Acyclic == []C37_List /\ [][C37_Step]_vars

\* an allocate walked a list of two nodes to its end and returned null
C37_Witness ==
    /\ last.op = "alloc"
    /\ last.ptr = NULL
    /\ Len(free) = 2
    /\ Acyclic(free)

(***************************************************************************)
(* C40.  init_heap initialises the allocator only after it has mapped      *)
(* every page of the heap range.                                           *)
(***************************************************************************)
\* the page of the heap range, counted from 1, that holds address a
PageOf(a) == (a \div PageSize) - (HEAP_START \div PageSize) + 1
IsMapped(p) == p \in 1..Len(mapped) /\ mapped[p]

C40_State ==
    /\ \A p \in 1..Len(mapped) : mapped[p]
    /\ herr # "none" => free = <<>> /\ live = <<>> /\ heap_size = 0
    /\ heap_size # 0 =>
          /\ heap_size = HEAP_SIZE
          /\ \A p \in 1..HeapPages : IsMapped(p)
    /\ \A i \in 1..Len(live) :
          /\ IsMapped(PageOf(live[i].ptr))
          /\ IsMapped(PageOf(live[i].ptr + NormSize(live[i]) - 1))

C40_Step ==
    /\ (AllocStep /\ (herr # "none" \/ heap_size = 0)) => last'.ptr = NULL
    /\ last'.op = "init" /\ last.op # "init" =>
          free' = <<[addr |-> HEAP_START, size |-> HEAP_SIZE]>>

\* C40: the loop of init_heap goes past a page only when it has mapped
\* it; once init_heap has returned an error the free list is empty and
\* stays so, every allocate returns null, and no allocation ever lies in
\* an unmapped page; the allocator is seeded, with the one region
\* (HEAP_START, HEAP_SIZE), only when all pages of the range are mapped.
C40_InitHeap == []C40_State /\ [][C40_Step]_allvars

\* init_heap failed after it had mapped some pages, and an allocate made
\* afterwards returned null
C40_Witness ==
    /\ herr # "none"
    /\ Len(mapped) > 0
    /\ last.op = "alloc"
    /\ last.ptr = NULL
    /\ free = <<>>

(***************************************************************************)
(* C32.  The log of the page-fault handler names every access-type flag    *)
(* whose bit is set in the error code.                                     *)
(***************************************************************************)
\* mod.rs:301-309  the flags of the error code, by bit
FlagName(b) ==
    CASE b = 0 -> "PROTECTION_VIOLATION"
      [] b = 1 -> "CAUSED_BY_WRITE"
      [] b = 2 -> "USER_MODE"
      [] b = 3 -> "MALFORMED_TABLE"
      [] b = 4 -> "INSTRUCTION_FETCH"
FlagBits == 0..4
Bit(x, b) == (x \div Pow2(b)) % 2 = 1
\* the flags a text of the log names; `error` is a single word
Names(text) == {b \in FlagBits : FlagName(b) = text}

\* C32: a page-fault handler that has logged has named, for every bit set
\* in its error code, the flag of that bit.
C32_FlagsNamed ==
    \A i \in 1..Len(istack) :
        (istack[i].irq = "pg_fault" /\ istack[i].logged) =>
            \A b \in FlagBits :
                Bit(istack[i].err, b) => b \in Names(istack[i].error)

(***************************************************************************)
(* C38.  Interrupt handlers never nest, and the controller lock a handler  *)
(* takes for its end-of-interrupt is always free.                          *)
(***************************************************************************)
\* the gate type of entry options: bits 8..11, 14 for an interrupt gate
\* and 15 for a trap gate
GateType(o) == get_bits(o, 8, 12)
HwFrames == {i \in 1..Len(istack) : istack[i].irq \in Irqs}

\* C38: at most one hardware-interrupt handler is active at a time, and a
\* handler that is about to lock PICS never finds it held.
C38_NoNesting ==
    /\ Cardinality(HwFrames) <= 1
    /\ (istack # <<>> /\ Top.pc = "eoi") => ~PicsHeld

(***************************************************************************)
(* C35.  The scancode queue is created at most once.                       *)
(***************************************************************************)
\* the step just taken is a call of ScancodeStream::new()
NewStep == InKbd("new") /\ klast'.op = "new"
\* the step just taken is the start of a poll_next
PollNextStep == InKbd("pop1") /\ klast'.op \in {"pop1", "ready"}

C35_State ==
    /\ ~sq_init => sq = <<>>
    /\ Len(sq) <= QueueCap

C35_Step ==
    /\ (NewStep /\ ~sq_init) =>
          /\ sq_init' /\ sq' = <<>>
          /\ kpanic' = "none"
          /\ queue_push(sq', 0).ok
          /\ ~queue_push([i \in 1..QueueCap |-> 0], 0).ok
    /\ (NewStep /\ sq_init) =>
          /\ kpanic' = "stream_twice"
          /\ sq_init' /\ sq' = sq
          /\ UNCHANGED <<accepted, delivered, wslot, wreg, wpending>>
    /\ (sq_init' # sq_init) => (NewStep /\ ~sq_init)
    /\ (PollNextStep /\ ~sq_init) => kpanic' = "stream_uninit"

\* C35: the first ScancodeStream::new() creates the queue, empty and with
\* room for 128 bytes; a later one panics and leaves the queue, its bytes
\* and the wake register as they are; nothing else creates or removes the
\* queue; poll_next without a queue panics.
C35_CreatedOnce == []C35_State /\ [][C35_Step]_allvars

\* a second task called ScancodeStream::new() while the queue of the
\* first held bytes, after the first had read one
C35_Witness ==
    /\ kpanic = "stream_twice"
    /\ sq # <<>>
    /\ delivered # <<>>
    /\ sq_init

(***************************************************************************)
(* C39.  With at most 100 tasks, a wake callback never finds the ready     *)
(* queue full.                                                             *)
(***************************************************************************)
\* C39: the ready queue never holds more than 100 identifiers and no wake
\* callback ever fails on a full ready queue.
C39_NeverFull ==
    /\ Len(task_queue) <= ReadyCap
    /\ kpanic # "wake_full"

(***************************************************************************)
(* C31                                                                     *)
(***************************************************************************)
\* C31: under fair scheduling of the executor loop every scancode whose push
\* succeeded is eventually returned by poll_next (the n-th accepted byte is
\* eventually the n-th delivered one), and a suspended task for which a byte
\* is queued is eventually polled again.
C31_Delivery ==
    /\ \A n \in 1..MaxLiveScan :
          (Len(accepted) >= n) ~> (Len(delivered) >= n)
    /\ (Suspended(1) /\ sq # <<>>) ~> (cur = 1)

(***************************************************************************)
(* C34                                                                     *)
(***************************************************************************)
\* the step just taken is the return of the innermost call of _print
PrintReturnStep == prt # <<>> /\ prt' = SubSeq(prt, 1, Len(prt) - 1)
\* while a writer lock is held the interrupts are disabled, and no call of
\* _print waits for a lock that a call in progress holds
C34_State ==
    /\ \A ch \in Channels : WriterHeld(ch) => ~iflag
    /\ \A j \in 1..Len(prt) :
          prt[j].pc = "lock" => ~WriterHeld(prt[j].ch)
    /\ \A j \in 1..Len(prt) :
          (prt[j].pc = "cli" /\ prt[j].lvl = Len(istack))
              => prt[j].saved = iflag
\* a call of _print returns with the interrupt flag it was entered with
C34_Step == PrintReturnStep => iflag' = prt[Len(prt)].saved

\* C34: the display and the serial writer lock are held only while the
\* interrupts are disabled, _print restores the interrupt flag it found, and
\* a print of an interrupt handler never waits for a writer lock held by
\* the code it interrupted.
C34_WriterLocks == []C34_State /\ [][C34_Step]_allvars

\* the keyboard handler holds the display lock for its warning while a
\* print of normal context to the display is in progress below it
C34_Witness ==
    /\ Len(prt) >= 2
    /\ prt[1].lvl = 0
    /\ prt[1].ch = "vga"
    /\ prt[Len(prt)].lvl > 0
    /\ prt[Len(prt)].ch = "vga"
    /\ prt[Len(prt)].pc = "held"
    /\ istack # <<>>
    /\ istack[Len(istack)].irq = "kbd"

(***************************************************************************)
(* C33                                                                     *)
(***************************************************************************)
\* the next instruction of the trampoline is its iretq
AtIretq ==
    /\ tkind \in TrampKinds
    /\ tpc \in 1..Len(Code(tkind))
    /\ Code(tkind)[tpc].op = "iretq"

\* C33: in both trampolines, when the typed handler has returned, each of
\* rax, rcx, rdx, rsi, rdi, r8, r9, r10 and r11 holds at iretq the value it
\* had at the entry, and the stack pointer points at the saved instruction
\* pointer of the hardware frame.
C33_Preserved ==
    AtIretq =>
        /\ \A r \in Regs : regs[r] = tentry.regs[r]
        /\ stk = HwFrame
        /\ Rsp = StackTop - (8 * Len(HwFrame))

====
